---- MODULE Spec2Model ----
(***************************************************************************)
(* Content selection and de-duplication of the tji-auto digest pipeline:   *)
(* the keyword scorers and the rule-based selector of fallback_selector.py,*)
(* the AI-assisted selectors of api_manager.py and of the four scrapers,   *)
(* and the persisted history / seen-sets they read and write.              *)
(*                                                                         *)
(* Text is modelled by TLA+ strings; lower(), strip() and the `in`         *)
(* substring test are computed character by character.  Time is counted    *)
(* in whole days.                                                          *)
(***************************************************************************)
EXTENDS Integers, Sequences, FiniteSets, TLC

(***************************************************************************)
(* Bounds of the model.                                                    *)
(***************************************************************************)
MaxItems == 2      \* longest candidate list
MaxCalls == 2      \* operations per run of a script
MaxTicks == 2      \* clock advances per behaviour
MaxFlowItems == 1  \* longest candidate list of a call followed step by step
MaxRuns == 3       \* runs of the TinyURL shortener per behaviour

(***************************************************************************)
(* Python str operations.                                                  *)
(***************************************************************************)
UpperChars == "ABCDEFGHIJKLMNOPQRSTUVWXYZ"
LowerChars == "abcdefghijklmnopqrstuvwxyz"
DigitChars == "0123456789"

Char(s, i) == SubSeq(s, i, i)

IndexIn(alphabet, c) ==
    IF \E i \in 1..Len(alphabet) : Char(alphabet, i) = c
    THEN CHOOSE i \in 1..Len(alphabet) : Char(alphabet, i) = c
    ELSE 0

LowerChar(c) ==
    IF IndexIn(UpperChars, c) = 0 THEN c
    ELSE Char(LowerChars, IndexIn(UpperChars, c))

UpperChar(c) ==
    IF IndexIn(LowerChars, c) = 0 THEN c
    ELSE Char(UpperChars, IndexIn(LowerChars, c))

RECURSIVE Lower(_)
Lower(s) ==
    IF Len(s) = 0 THEN ""
    ELSE LowerChar(Char(s, 1)) \o Lower(SubSeq(s, 2, Len(s)))

RECURSIVE Upper(_)
Upper(s) ==
    IF Len(s) = 0 THEN ""
    ELSE UpperChar(Char(s, 1)) \o Upper(SubSeq(s, 2, Len(s)))

IsSpace(c) == c \in {" ", "\n", "\t"}

RECURSIVE LStrip(_)
LStrip(s) ==
    IF Len(s) > 0 /\ IsSpace(Char(s, 1)) THEN LStrip(SubSeq(s, 2, Len(s)))
    ELSE s

RECURSIVE RStrip(_)
RStrip(s) ==
    IF Len(s) > 0 /\ IsSpace(Char(s, Len(s))) THEN RStrip(SubSeq(s, 1, Len(s) - 1))
    ELSE s

Strip(s) == RStrip(LStrip(s))

\* Python `sub in s`
In(sub, s) ==
    \E i \in 1..(Len(s) - Len(sub) + 1) : SubSeq(s, i, i + Len(sub) - 1) = sub

\* dict.get(key, default)
Get(d, key, default) == IF key \in DOMAIN d THEN d[key] ELSE default

\* (a count that finds no keyword)
NoHits(keywords, text) == 0

\* number of keywords of the list that occur in text
Hits(keywords, text) == Cardinality({i \in 1..Len(keywords) : In(keywords[i], text)})

\* (a result that is not clamped)
SecondOf(a, b) == b

\* max(a, b)
Max(a, b) == IF a >= b THEN a ELSE b

(***************************************************************************)
(* Category scorers (fallback_selector.py).  An item is a Python dict: a   *)
(* function from the keys it has to their values.                          *)
(***************************************************************************)
\* article['date'] is modelled as [ok |-> parses as ISO-8601, aware |-> has a
\* UTC offset (or a trailing Z), day |-> the day it names].  Subtracting an
\* aware datetime from datetime.now() raises TypeError, which the bare except
\* swallows together with a parse error.
\* (a bonus granted by the clock alone, dated or not)
RecentBonusAnyItem(article, now) == IF now < 1 THEN 5 ELSE 0

RecentBonus(article, now) ==
    IF "date" \in DOMAIN article
    THEN IF article.date.ok /\ ~article.date.aware /\ (now - article.date.day) * 24 < 24
         THEN 5 ELSE 0
    ELSE 0

score_tech_article(article, now) ==
    LET high_value_keywords == <<"breakthrough", "innovation", "new", "launch", "release", "ai",
                                 "artificial intelligence", "machine learning", "deep learning",
                                 "quantum", "blockchain", "cryptocurrency", "cybersecurity">>
        medium_value_keywords == <<"software", "developer", "programming", "coding", "tech",
                                   "startup",
                                   "technology", "algorithm", "data science", "cloud", "mobile", "web",
                                   "api", "framework">>
        low_value_keywords == <<"update", "feature", "tool", "platform", "service", "app",
                                "website", "system", "network", "database">>
        negative_keywords == <<"opinion", "editorial", "blog", "personal", "drama", "controversy",
                               "gossip", "rumor", "politics", "lawsuit">>
        title == Lower(Get(article, "title", ""))
        kw == 10 * Hits(high_value_keywords, title) + 5 * Hits(medium_value_keywords, title)
              + 2 * Hits(low_value_keywords, title) - 10 * Hits(negative_keywords, title)
        len == IF 30 <= Len(title) /\ Len(title) <= 100 THEN 3 ELSE 0
    IN  Max(0, kw + RecentBonus(article, now) + len)

score_internship(internship) ==
    LET cs_keywords == <<"software", "developer", "programming", "coding", "computer science",
                         "it", "technology", "tech", "web development", "mobile development",
                         "data science", "machine learning", "ai", "artificial intelligence">>
        tech_keywords == <<"engineer", "analyst", "technical", "digital", "automation",
                           "cloud", "database", "api", "frontend", "backend", "fullstack">>
        tech_companies == <<"google", "microsoft", "amazon", "apple", "facebook", "meta",
                            "netflix", "uber", "airbnb", "spotify", "adobe", "salesforce",
                            "oracle", "ibm", "intel", "nvidia", "tesla", "twitter">>
        suspicious_patterns == <<"work from home", "earn money", "no experience required",
                                 "easy money", "part time", "flexible hours", "commission based">>
        title == Lower(Get(internship, "title", ""))
        company == Lower(Get(internship, "company", ""))
        description == Lower(Get(internship, "description", ""))
        suspicious == Cardinality({i \in 1..Len(suspicious_patterns) :
                          In(suspicious_patterns[i], title) \/ In(suspicious_patterns[i], description)})
    IN  Max(0, 15 * Hits(cs_keywords, title) + 10 * Hits(tech_keywords, title)
               + 20 * Hits(tech_companies, company) + 5 * Hits(cs_keywords, description)
               - 15 * suspicious)

score_job(job) ==
    LET entry_level_titles == <<"junior", "associate", "entry level", "graduate", "fresher",
                                "software engineer", "developer", "analyst", "specialist">>
        tech_keywords == <<"software", "programming", "coding", "development", "technical",
                           "it", "computer science", "technology", "engineer">>
        experience_patterns == <<"0-1 year", "0-2 year", "fresher", "entry level", "graduate",
                                 "no experience", "fresh graduate">>
        senior_keywords == <<"senior", "lead", "principal", "manager", "director", "head of",
                             "chief", "vp", "vice president", "5+ years", "3+ years",
                             "experienced">>
        title == Lower(Get(job, "title", ""))
        description == Lower(Get(job, "description", ""))
        experience == Cardinality({i \in 1..Len(experience_patterns) :
                          In(experience_patterns[i], title) \/ In(experience_patterns[i], description)})
    IN  Max(0, 20 * Hits(entry_level_titles, title) + 10 * Hits(tech_keywords, title)
               + 15 * experience - 25 * Hits(senior_keywords, title))

score_upskill_article(article) ==
    LET learning_keywords == <<"tutorial", "guide", "how to", "learn", "beginner", "step by step",
                               "complete guide", "introduction to", "getting started", "best practices">>
        tech_keywords == <<"python", "javascript", "react", "node.js", "java", "c++",
                           "machine learning", "data science", "web development",
                           "mobile development",
                           "cloud computing", "docker", "kubernetes">>
        project_keywords == <<"project", "build", "create", "implement", "develop", "portfolio",
                              "hands-on", "practical", "example">>
        question_words == <<"how", "what", "why", "when", "where">>
        title == Lower(Get(article, "title", ""))
        structure == IF Hits(question_words, title) > 0 THEN 5 ELSE 0
    IN  Max(0, 15 * Hits(learning_keywords, title) + 10 * Hits(tech_keywords, title)
               + 12 * Hits(project_keywords, title) + structure)

\* the score fallback_select_best gives one item (lines 289-299)
ScoreByType(item, item_type, now) ==
    CASE item_type = "tech_news"  -> score_tech_article(item, now)
      [] item_type = "internship" -> score_internship(item)
      [] item_type = "job"        -> score_job(item)
      [] item_type = "upskill"    -> score_upskill_article(item)
      [] OTHER                    -> 0

(***************************************************************************)
(* Candidate items and LLM replies the model draws its inputs from.        *)
(***************************************************************************)
\* two tutorials, a re-titled copy of the first under another url, a news item at
\* the url of the second, and two job postings
ItemUniverse ==
    {[title |-> "Python Tutorial", url |-> "x.io/py"],
     [title |-> "Learn Docker", url |-> "x.io/dk"],
     [title |-> " python tutorial ", url |-> "y.io/py"],
     [title |-> "New AI Tool", url |-> "X.IO/DK "],
     [title |-> "Senior Developer", url |-> "j.io/1", company |-> "Google",
      description |-> "5+ years"],
     [title |-> "Developer", url |-> "j.io/2", company |-> "Acme", description |-> "fresher"]}

\* lists of distinct items, as a scraper's in-session de-duplication leaves them
RECURSIVE ListsOfLen(_)
ListsOfLen(n) ==
    IF n = 0 THEN {<<>>}
    ELSE {Append(l, it) : l \in ListsOfLen(n - 1), it \in ItemUniverse}

Distinct(l) == \A i, j \in 1..Len(l) : i # j => l[i] # l[j]

CandidateLists == UNION {{l \in ListsOfLen(n) : Distinct(l)} : n \in 0..MaxItems}

ContentTypes == {"tech_news", "internship", "job", "upskill"}

\* the instants the clock can show
RECURSIVE ClockAfter(_)
ClockAfter(n) ==
    IF n = 0 THEN {0}
    ELSE ClockAfter(n - 1) \cup {c + d : c \in ClockAfter(n - 1), d \in {1, 30}}

Clock == ClockAfter(MaxTicks)

\* items that draw penalties, lack a title or carry a date: parseable and
\* naive, parseable with a UTC offset, or not parseable
ScoreItems ==
    ItemUniverse \cup
    {[url |-> "x.io/nt"],
     [title |-> "", url |-> "x.io/et"],
     [title |-> "Opinion: tech gossip blog", url |-> "x.io/op"],
     [title |-> "Part time sales", url |-> "j.io/3", company |-> "Acme",
      description |-> "earn money"],
     [title |-> "Senior Manager", url |-> "j.io/4", company |-> "Acme", description |-> ""],
     [title |-> "New AI Tool", url |-> "x.io/d0", date |-> [ok |-> TRUE, aware |-> FALSE, day |-> 0]],
     [title |-> "Opinion", url |-> "x.io/d1", date |-> [ok |-> TRUE, aware |-> FALSE, day |-> 1]],
     [title |-> "New AI Tool", url |-> "x.io/dz", date |-> [ok |-> TRUE, aware |-> TRUE, day |-> 0]],
     [title |-> "New AI Tool", url |-> "x.io/dx", date |-> [ok |-> FALSE, aware |-> FALSE, day |-> 0]]}

\* the items of the specification's example scenarios 1 and 3
NewsA == [title |-> "New AI Breakthrough in Machine Learning", url |-> "a"]
NewsB == [title |-> "Opinion: Why Tech is Bad", url |-> "b"]
SeniorJob == [title |-> "Senior Software Engineer", url |-> "j.io/5", company |-> "Acme"]
JuniorJob == [title |-> "Junior Software Engineer", url |-> "j.io/5", company |-> "Acme"]

ScenarioLists ==
    {<<NewsA, NewsB>>, <<NewsB, NewsA>>, <<SeniorJob, JuniorJob>>, <<JuniorJob, SeniorJob>>}

\* every score the model can ask for; @@ makes TLC compute the table once
ScoreMemo ==
    [a \in (ScoreItems \cup {NewsA, NewsB, SeniorJob, JuniorJob}) \X ContentTypes \X Clock |->
        ScoreByType(a[1], a[2], a[3])] @@ <<>>

ItemScore(item, item_type, now) ==
    IF <<item, item_type, now>> \in DOMAIN ScoreMemo
    THEN ScoreMemo[<<item, item_type, now>>]
    ELSE ScoreByType(item, item_type, now)

(***************************************************************************)
(* Rule-based Selector (fallback_selector.py).                             *)
(***************************************************************************)
\* datetime.isoformat() of the instant t
IsoFormat(t) == "day " \o ToString(t)

\* Python None, as a value whose DOMAIN can be taken like a dict's
None == [None |-> TRUE]

\* (a sort that lets a later element overtake its equals)
InsertDescUnstable(sorted, x) ==
    LET k == Cardinality({i \in 1..Len(sorted) : sorted[i][1] > x[1]})
    IN  SubSeq(sorted, 1, k) \o <<x>> \o SubSeq(sorted, k + 1, Len(sorted))

\* list.sort(key = score, reverse = True) is stable: an element goes behind
\* every element already placed whose score is greater than or equal to its own
InsertDesc(sorted, x) ==
    LET k == Cardinality({i \in 1..Len(sorted) : sorted[i][1] >= x[1]})
    IN  SubSeq(sorted, 1, k) \o <<x>> \o SubSeq(sorted, k + 1, Len(sorted))

RECURSIVE SortDesc(_)
SortDesc(scored) ==
    IF Len(scored) = 0 THEN <<>>
    ELSE InsertDesc(SortDesc(SubSeq(scored, 1, Len(scored) - 1)), scored[Len(scored)])

\* (a selector that takes the last item of the sorted list)
fallback_select_lowest(items, item_type, now) ==
    IF Len(items) = 0 THEN None
    ELSE LET scored_items == [i \in 1..Len(items) |-> <<ItemScore(items[i], item_type, now), items[i]>>]
         IN  SortDesc(scored_items)[Len(items)][2]

fallback_select_best(items, item_type, now) ==
    IF Len(items) = 0 THEN None
    ELSE LET scored_items == [i \in 1..Len(items) |-> <<ItemScore(items[i], item_type, now), items[i]>>]
         IN  SortDesc(scored_items)[1][2]

\* (the url read under a key the items do not carry)
create_fallback_selection_result_link(item, item_type, total_items, now) ==
    [title |-> Get(item, "title", "Unknown"),
     url |-> Get(item, "link", ""),
     company |-> IF "company" \in DOMAIN item THEN Get(item, "company", "") ELSE None,
     selection_method |-> "fallback_algorithm",
     selection_reasoning |-> "Selected using rule-based scoring algorithm from "
                             \o ToString(total_items) \o " " \o item_type \o " items",
     ai_selection |-> FALSE,
     timestamp |-> IsoFormat(now)]

create_fallback_selection_result(item, item_type, total_items, now) ==
    [title |-> Get(item, "title", "Unknown"),
     url |-> Get(item, "url", ""),
     company |-> IF "company" \in DOMAIN item THEN Get(item, "company", "") ELSE None,
     selection_method |-> "fallback_algorithm",
     selection_reasoning |-> "Selected using rule-based scoring algorithm from "
                             \o ToString(total_items) \o " " \o item_type \o " items",
     ai_selection |-> FALSE,
     timestamp |-> IsoFormat(now)]

(***************************************************************************)
(* The LLM call.  One call of a selector meets one outcome of the service: *)
(* no usable key, no client, an exception from the request (network error, *)
(* rate limit, malformed response object), or a reply text.                *)
(***************************************************************************)
AiKinds == {"no_key", "no_client", "throws", "text"}

AiFail(kind) == [kind |-> kind, text |-> ""]
AiText(t) == [kind |-> "text", text |-> t]

\* what the model lets the AI call do: fail in one of three ways, or reply
OtherReplies == {"NONE", "developer", "Quantum Chips"}

TitleReplies(list) == {Get(list[i], "title", "") : i \in 1..Len(list)} \cup OtherReplies

UpskillReplies == {"1", "2. Hands-on Docker", "I pick article 2", "3", "Nothing fits"}

AiOutcomes(replies) ==
    {AiFail(k) : k \in AiKinds \ {"text"}} \cup {AiText(t) : t \in replies}

\* every title and reply of the model, with its str results computed once
KnownStrings ==
    LET raw == {it.title : it \in ItemUniverse} \cup OtherReplies \cup UpskillReplies
    IN  raw \cup {Strip(s) : s \in raw}

StrMemo == [s \in KnownStrings |-> <<Strip(s), Upper(s)>>] @@ <<>>

strip(s) == IF s \in DOMAIN StrMemo THEN StrMemo[s][1] ELSE Strip(s)
upper(s) == IF s \in DOMAIN StrMemo THEN StrMemo[s][2] ELSE Upper(s)

\* a.lower() in b.lower() or b.lower() in a.lower()
EitherContains(a, b) == In(Lower(a), Lower(b)) \/ In(Lower(b), Lower(a))

ContainsMemo == [pr \in KnownStrings \X KnownStrings |-> EitherContains(pr[1], pr[2])] @@ <<>>

either_contains(a, b) ==
    IF <<a, b>> \in DOMAIN ContainsMemo THEN ContainsMemo[<<a, b>>] ELSE EitherContains(a, b)

(***************************************************************************)
(* ai_select_content (api_manager.py).  importOk: whether                  *)
(* `from fallback_selector import ...` resolves on the caller's sys.path.  *)
(***************************************************************************)
\* (an empty list answered with the first-item record of the last resort)
NoItemsResultPick(content_type) ==
    [title |-> "", url |-> "", company |-> None,
     selection_method |-> "first_item_fallback",
     selection_reasoning |-> "Emergency fallback - selected first of 0 items",
     timestamp |-> "2025-01-25T22:47:00"]

\* what ai_select_content returns for an empty list (lines 122-127)
NoItemsResult(content_type) ==
    [message |-> "No " \o content_type \o " items to analyze",
     status |-> "no_content",
     selection_method |-> "none"]

\* the first item whose stripped title equals the stripped reply, or 0
ExactMatch(items, selected_title) ==
    LET hit == {i \in 1..Len(items) : strip(Get(items[i], "title", "")) = strip(selected_title)}
    IN  IF hit = {} THEN 0 ELSE CHOOSE i \in hit : \A j \in hit : i <= j

ai_select_content(items, content_type, ai, importOk, now) ==
    LET ai_pick == IF ai.kind = "text" THEN ExactMatch(items, strip(ai.text)) ELSE 0
        best_item == fallback_select_best(items, content_type, now)
    IN  IF Len(items) = 0
        THEN NoItemsResult(content_type)
        ELSE IF ai_pick > 0
        THEN [title |-> Get(items[ai_pick], "title", ""),
              url |-> Get(items[ai_pick], "url", ""),
              company |-> IF "company" \in DOMAIN items[ai_pick]
                          THEN Get(items[ai_pick], "company", "") ELSE None,
              selection_method |-> "ai",
              ai_reasoning |-> "Selected by AI from " \o ToString(Len(items)) \o " options",
              timestamp |-> "2025-01-25T22:47:00"]
        ELSE IF importOk
        THEN IF best_item # None
             THEN create_fallback_selection_result(best_item, content_type, Len(items), now)
             ELSE [message |-> "No suitable " \o content_type \o " found",
                   status |-> "no_content",
                   selection_method |-> "fallback_failed"]
        ELSE [title |-> Get(items[1], "title", ""),
              url |-> Get(items[1], "url", ""),
              company |-> IF "company" \in DOMAIN items[1]
                          THEN Get(items[1], "company", "") ELSE None,
              selection_method |-> "first_item_fallback",
              selection_reasoning |-> "Emergency fallback - selected first of "
                                      \o ToString(Len(items)) \o " items",
              timestamp |-> "2025-01-25T22:47:00"]

\* reply texts of the title-returning prompts: a title of the list as it
\* stands, the sentinel, a title in another case, a title that is not there

(***************************************************************************)
(* History Store (upskill_scraper.py; webscraptest.py has the same code).  *)
(* A history file is [exists, data]: data maps a key to the date string    *)
(* stored for it.  One call meets at most one injected fault.              *)
(***************************************************************************)
HISTORY_DAYS == 30

Faults == {"none", "json_read", "hist_read", "hist_write", "out_write"}

NoFile == [exists |-> FALSE, data |-> <<>>]

IsDigit(c) == IndexIn(DigitChars, c) > 0

AllDigits(s) == Len(s) > 0 /\ \A i \in 1..Len(s) : IsDigit(Char(s, i))

\* int() of a digit string
RECURSIVE ToInt(_)
ToInt(s) ==
    IF Len(s) = 0 THEN 0
    ELSE ToInt(SubSeq(s, 1, Len(s) - 1)) * 10 + IndexIn(DigitChars, Char(s, Len(s))) - 1

\* datetime.fromisoformat: can the date string be parsed, and the day it names
IsoOk(s) == Len(s) > 4 /\ SubSeq(s, 1, 4) = "day " /\ AllDigits(SubSeq(s, 5, Len(s)))
IsoDay(s) == ToInt(SubSeq(s, 5, Len(s)))

\* dict with history[key] = value
Put(history, key, value) ==
    [k \in DOMAIN history \cup {key} |-> IF k = key THEN value ELSE history[k]]

\* save_upskill_history: the file after the call; a failed write is swallowed
save_upskill_history(file, history, fault) ==
    IF fault = "hist_write" THEN file
    ELSE [exists |-> TRUE, data |-> history]

\* the date strings of the model, parsed once: <<parseable, day>>
DateMemo ==
    [s \in {IsoFormat(t) : t \in Clock} \cup {"yesterday"} |->
        <<IsoOk(s), IF IsoOk(s) THEN IsoDay(s) ELSE 0>>] @@ <<>>

iso_ok(date_str) == IF date_str \in DOMAIN DateMemo THEN DateMemo[date_str][1] ELSE IsoOk(date_str)
iso_day(date_str) == IF date_str \in DOMAIN DateMemo THEN DateMemo[date_str][2] ELSE IsoDay(date_str)

\* (a pruning that keeps every entry whose date parses, however old)
CleanedHistoryAnyAge(history, now) ==
    [k \in {j \in DOMAIN history : iso_ok(history[j])} |-> history[k]]

\* the entries load keeps: parseable and not older than the window
CleanedHistory(history, now) ==
    LET keep == {k \in DOMAIN history :
                    iso_ok(history[k]) /\ iso_day(history[k]) >= now - HISTORY_DAYS}
    IN  [k \in keep |-> history[k]]

\* a history file whose contents json.load rejects, or that holds a JSON list
\* where the mapping should be
CorruptFiles == {[exists |-> TRUE, data |-> <<>>, corrupt |-> c] : c \in {"not_json", "json_list"}}

\* what a call that lets an exception through hands to its caller
Raised == [raised |-> "Exception"]

\* (a load without its outer except clause)
load_unguarded(file, now, fault) ==
    IF ~file.exists THEN [ret |-> <<>>, file |-> file]
    ELSE IF fault = "hist_read" \/ file \in CorruptFiles THEN [ret |-> Raised, file |-> file]
    ELSE [ret |-> CleanedHistory(file.data, now), file |-> file]

\* (a load that rewrites the file pruned but returns the mapping as it was read)
load_returns_unpruned(file, now, fault) ==
    IF ~file.exists THEN [ret |-> <<>>, file |-> file]
    ELSE IF fault = "hist_read" \/ file \in CorruptFiles THEN [ret |-> <<>>, file |-> file]
    ELSE [ret |-> file.data,
          file |-> save_upskill_history(file, CleanedHistory(file.data, now), fault)]

\* load_upskill_history: [ret |-> the mapping returned, file |-> the file afterwards]
load_upskill_history(file, now, fault) ==
    IF ~file.exists THEN [ret |-> <<>>, file |-> file]
    ELSE IF fault = "hist_read" \/ file \in CorruptFiles THEN [ret |-> <<>>, file |-> file]
    ELSE LET cleaned_history == CleanedHistory(file.data, now)
         IN  [ret |-> cleaned_history,
              file |-> IF Cardinality(DOMAIN cleaned_history) # Cardinality(DOMAIN file.data)
                       THEN save_upskill_history(file, cleaned_history, fault)
                       ELSE file]

TitleKeyOf(article) == "title:" \o Strip(Lower(article.title))
UrlKeyOf(article) == "url:" \o Strip(Lower(article.url))

\* the two keys of every item of the model, computed once
KeyMemo == [it \in ItemUniverse |-> <<TitleKeyOf(it), UrlKeyOf(it)>>] @@ <<>>

title_key(article) == IF article \in DOMAIN KeyMemo THEN KeyMemo[article][1] ELSE TitleKeyOf(article)
url_key(article) == IF article \in DOMAIN KeyMemo THEN KeyMemo[article][2] ELSE UrlKeyOf(article)

\* (a record that lets a failed write through to its caller)
add_letting_errors_through(article, file, now, fault) ==
    IF fault = "hist_write" THEN Raised
    ELSE LET loaded == load_upskill_history(file, now, fault)
         IN  save_upskill_history(loaded.file,
                 Put(Put(loaded.ret, title_key(article), IsoFormat(now)),
                     url_key(article), IsoFormat(now)),
                 fault)

\* (a record that writes the title key alone)
add_title_key_only(article, file, now, fault) ==
    LET loaded == load_upskill_history(file, now, fault)
    IN  IF "title" \notin DOMAIN article THEN loaded.file
        ELSE save_upskill_history(loaded.file,
                 Put(loaded.ret, title_key(article), IsoFormat(now)), fault)

\* add_to_upskill_history: the file after the call
add_to_upskill_history(article, file, now, fault) ==
    LET loaded == load_upskill_history(file, now, fault)
        current_time == IsoFormat(now)
    IN  IF "title" \notin DOMAIN article \/ "url" \notin DOMAIN article
        THEN loaded.file
        ELSE save_upskill_history(loaded.file,
                 Put(Put(loaded.ret, title_key(article), current_time),
                     url_key(article), current_time),
                 fault)

HasKeys(article) == "title" \in DOMAIN article /\ "url" \in DOMAIN article

\* (an article dropped only when both of its keys are in the history)
IsNewBothKeys(article, history) ==
    ~(title_key(article) \in DOMAIN history /\ url_key(article) \in DOMAIN history)

\* is the article kept by the filter, given the loaded history
IsNew(article, history) ==
    ~(title_key(article) \in DOMAIN history \/ url_key(article) \in DOMAIN history)

RECURSIVE NewArticles(_, _)
\* the articles the filter loop appends, in order
NewArticles(articles, history) ==
    IF Len(articles) = 0 THEN <<>>
    ELSE LET rest == NewArticles(SubSeq(articles, 1, Len(articles) - 1), history)
             a == articles[Len(articles)]
         IN  IF IsNew(a, history) THEN Append(rest, a) ELSE rest

\* (a filter that loads the history and drops nothing)
filter_nothing(articles, file, now, fault) ==
    [ret |-> articles, file |-> load_upskill_history(file, now, fault).file]

\* filter_previously_selected: [ret |-> the filtered list, file |-> the file afterwards]
filter_previously_selected(articles, file, now, fault) ==
    LET loaded == load_upskill_history(file, now, fault)
    IN  [ret |-> IF DOMAIN loaded.ret = {} THEN articles
                 ELSE IF \E i \in 1..Len(articles) : ~HasKeys(articles[i]) THEN articles
                 ELSE NewArticles(articles, loaded.ret),
         file |-> loaded.file]

(***************************************************************************)
(* Upskill selection (upskill_scraper.py).                                 *)
(***************************************************************************)

\* the score of lines 1313-1332
UpskillInlineScore(article) ==
    LET high_value_keywords == <<"tutorial", "guide", "how to", "step by step", "complete", "build",
                                 "create">>
        tech_keywords == <<"python", "javascript", "react", "node.js", "ai", "machine learning",
                           "docker", "kubernetes">>
        learning_keywords == <<"learn", "beginner", "introduction", "basics", "fundamentals">>
        title == Lower(article.title)
    IN  3 * Hits(high_value_keywords, title) + 2 * Hits(tech_keywords, title)
        + Hits(learning_keywords, title)

UpskillInlineMemo == [it \in ItemUniverse |-> UpskillInlineScore(it)] @@ <<>>

inline_score(article) ==
    IF article \in DOMAIN UpskillInlineMemo THEN UpskillInlineMemo[article]
    ELSE UpskillInlineScore(article)

\* re.search results; NoMatch when the pattern does not occur
NoMatch == -1

\* the last index of the digit run that starts at i
DigitRunEnd(s, i) ==
    CHOOSE e \in i..Len(s) :
        /\ \A j \in i..e : IsDigit(Char(s, j))
        /\ (e = Len(s) \/ ~IsDigit(Char(s, e + 1)))

NumberAt(s, i) == ToInt(SubSeq(s, i, DigitRunEnd(s, i)))

Least(S) == CHOOSE i \in S : \A j \in S : i <= j

\* r'^(\d+)'
MatchLeading(s) ==
    IF Len(s) > 0 /\ IsDigit(Char(s, 1)) THEN NumberAt(s, 1) ELSE NoMatch

\* r'(\d+)\.'
MatchBeforePeriod(s) ==
    LET at == {i \in 1..Len(s) :
                  /\ IsDigit(Char(s, i))
                  /\ DigitRunEnd(s, i) < Len(s)
                  /\ Char(s, DigitRunEnd(s, i) + 1) = "."}
    IN  IF at = {} THEN NoMatch ELSE NumberAt(s, Least(at))

\* the first index after the whitespace run that starts at p, or 0 without one
AfterSpaces(s, p) ==
    IF p > Len(s) \/ ~IsSpace(Char(s, p)) THEN 0
    ELSE Least({q \in (p + 1)..(Len(s) + 1) : q = Len(s) + 1 \/ ~IsSpace(Char(s, q))})

\* r'word\s+(\d+)' with re.IGNORECASE
MatchAfterWord(s, word) ==
    LET at == {i \in 1..(Len(s) - Len(word)) :
                  /\ Lower(SubSeq(s, i, i + Len(word) - 1)) = word
                  /\ AfterSpaces(s, i + Len(word)) # 0
                  /\ AfterSpaces(s, i + Len(word)) <= Len(s)
                  /\ IsDigit(Char(s, AfterSpaces(s, i + Len(word))))}
    IN  IF at = {} THEN NoMatch ELSE NumberAt(s, AfterSpaces(s, Least(at) + Len(word)))

\* r'#(\d+)'
MatchAfterHash(s) ==
    LET at == {i \in 1..(Len(s) - 1) : Char(s, i) = "#" /\ IsDigit(Char(s, i + 1))}
    IN  IF at = {} THEN NoMatch ELSE NumberAt(s, Least(at) + 1)

\* lines 1230-1241: the 0-based index the reply selects among n articles, or
\* NoMatch.  The loop leaves at the first pattern whose number is in range; a
\* number out of range is overwritten by a later match or fails the final test.
ParseSelectedIndex(ai_response, n) ==
    LET found == <<MatchLeading(ai_response), MatchBeforePeriod(ai_response),
                   MatchAfterWord(ai_response, "article"),
                   MatchAfterWord(ai_response, "number"), MatchAfterHash(ai_response)>>
        good == {k \in 1..5 : found[k] # NoMatch /\ 0 <= found[k] - 1 /\ found[k] - 1 < n}
    IN  IF good = {} THEN NoMatch ELSE found[Least(good)] - 1

ParseMemo ==
    [a \in UpskillReplies \X (0..(MaxItems + 1)) |-> ParseSelectedIndex(a[1], a[2])] @@ <<>>

selected_index(ai_response, n) ==
    IF <<ai_response, n>> \in DOMAIN ParseMemo THEN ParseMemo[<<ai_response, n>>]
    ELSE ParseSelectedIndex(ai_response, n)

\* the head of scored_articles.sort(key = score, reverse = True)
BestByInlineScore(articles) ==
    SortDesc([i \in 1..Len(articles) |-> <<inline_score(articles[i]), articles[i]>>])[1][2]

BothFailed == [error |-> "Both AI and fallback selection failed"]

\* select_best_upskill_fallback: [ret |-> the dict returned, file |-> the history file afterwards]
select_best_upskill_fallback(articles, file, now, fault) ==
    LET Answer(filtered, best_article, recorded) ==
            IF Len(filtered.ret) = 0
            THEN [ret |-> [error |-> "All articles have been previously selected",
                           total_articles_found |-> Len(articles),
                           previously_selected |-> Len(articles),
                           selection_method |-> "fallback_algorithm",
                           suggestion |-> "Try running the scraper again later for new content"],
                  file |-> filtered.file]
            ELSE IF \E i \in 1..Len(filtered.ret) : "title" \notin DOMAIN filtered.ret[i]
            THEN [ret |-> BothFailed, file |-> filtered.file]
            ELSE IF fault = "out_write"
            THEN [ret |-> BothFailed, file |-> recorded]
            ELSE [ret |-> [selected_article |-> best_article,
                           ai_reasoning |-> "Selected using rule-based fallback algorithm based on educational value keywords",
                           total_articles_scraped |-> Len(articles),
                           total_articles_analyzed |-> Len(filtered.ret),
                           previously_selected_filtered |-> Len(articles) - Len(filtered.ret),
                           selection_criteria |-> "Rule-based scoring: tutorial keywords, technology relevance, learning value",
                           selection_method |-> "fallback_algorithm",
                           deduplication_enabled |-> TRUE],
                  file |-> recorded]
        Record(filtered, best_article) ==
            Answer(filtered, best_article,
                   add_to_upskill_history(best_article, filtered.file, now, fault))
        Score(filtered) == Record(filtered, BestByInlineScore(filtered.ret))
    IN  IF fault = "json_read" THEN [ret |-> BothFailed, file |-> file]
        ELSE IF Len(articles) = 0
        THEN [ret |-> [error |-> "No articles found in the JSON file"], file |-> file]
        ELSE Score(filter_previously_selected(articles, file, now, fault))

\* select_best_upskill_article: [ret |-> the dict returned, file |-> the history file afterwards].
\* A step that hands over to the rule-based selection yields [handed |-> the
\* history file at that point].
select_best_upskill_article(articles, file, now, ai, fault) ==
    LET Answer(filtered, ai_response, index, recorded) ==
            IF Len(filtered.ret) = 0
            THEN [ret |-> [error |-> "All articles have been previously selected",
                           total_articles_found |-> Len(articles),
                           previously_selected |-> Len(articles),
                           suggestion |-> "Try running the scraper again later for new content"],
                  file |-> filtered.file]
            ELSE IF ai.kind = "throws"
                    \/ \E i \in 1..Len(filtered.ret) : "title" \notin DOMAIN filtered.ret[i]
            THEN [handed |-> filtered.file]
            ELSE IF index = NoMatch
            THEN [ret |-> [error |-> "Could not parse AI response to extract article number",
                           ai_response |-> ai_response,
                           total_articles_scraped |-> Len(articles),
                           total_articles_analyzed |-> Len(filtered.ret),
                           debug_info |-> "AI response did not contain a recognizable article number (1-"
                                          \o ToString(Len(filtered.ret)) \o ")"],
                  file |-> filtered.file]
            ELSE IF fault = "out_write"
            THEN [handed |-> recorded]
            ELSE [ret |-> [selected_article |-> filtered.ret[index + 1],
                           ai_reasoning |-> ai_response,
                           total_articles_scraped |-> Len(articles),
                           total_articles_analyzed |-> Len(filtered.ret),
                           previously_selected_filtered |-> Len(articles) - Len(filtered.ret),
                           selection_criteria |-> "Practical learning value, technology relevance, skill building potential",
                           deduplication_enabled |-> TRUE],
                  file |-> recorded]
        Record(filtered, ai_response, index) ==
            Answer(filtered, ai_response, index,
                   add_to_upskill_history(filtered.ret[index + 1], filtered.file, now, fault))
        Parse(filtered, ai_response) ==
            Record(filtered, ai_response, selected_index(ai_response, Len(filtered.ret)))
        Fallback(step) ==
            IF "handed" \in DOMAIN step
            THEN select_best_upskill_fallback(articles, step.handed, now, fault)
            ELSE step
    IN  Fallback(IF ai.kind \in {"no_key", "no_client"} \/ fault = "json_read"
                 THEN [handed |-> file]
                 ELSE IF Len(articles) = 0
                 THEN [ret |-> [error |-> "No articles found in the JSON file"], file |-> file]
                 ELSE Parse(filter_previously_selected(articles, file, now, fault),
                            strip(ai.text)))

(***************************************************************************)
(* Tech news (webscraptest.py).  The history functions repeat the upskill  *)
(* ones line for line on HISTORY_FILE.                                     *)
(***************************************************************************)
load_article_history(file, now, fault) == load_upskill_history(file, now, fault)

add_to_history(article, file, now, fault) == add_to_upskill_history(article, file, now, fault)

\* is_duplicate_article: [ret |-> the answer, file |-> the history file afterwards]
is_duplicate_article(article, file, now, fault) ==
    LET loaded == load_article_history(file, now, fault)
    IN  [ret |-> IF ~HasKeys(article) THEN FALSE
                 ELSE title_key(article) \in DOMAIN loaded.ret
                      \/ url_key(article) \in DOMAIN loaded.ret,
         file |-> loaded.file]

RECURSIVE filter_duplicate_articles(_, _, _, _)
\* filter_duplicate_articles: [ret |-> <<filtered_articles, duplicate_count>>, file |-> ...]
filter_duplicate_articles(articles, file, now, fault) ==
    IF Len(articles) = 0 THEN [ret |-> <<(<<>>), 0>>, file |-> file]
    ELSE LET rest == filter_duplicate_articles(SubSeq(articles, 1, Len(articles) - 1), file, now, fault)
             dup == is_duplicate_article(articles[Len(articles)], rest.file, now, fault)
         IN  [ret |-> IF dup.ret THEN <<rest.ret[1], rest.ret[2] + 1>>
                      ELSE <<Append(rest.ret[1], articles[Len(articles)]), rest.ret[2]>>,
              file |-> dup.file]

\* the first line of the reply that starts with the tag, with the tag removed
\* and stripped; the replies of the model are single lines
AfterTag(ai_response, tag) ==
    IF Len(ai_response) >= Len(tag) /\ SubSeq(ai_response, 1, Len(tag)) = tag
    THEN Strip(SubSeq(ai_response, Len(tag) + 1, Len(ai_response)))
    ELSE ""

\* lines 905-920: the title the reply names
ParsedTitle(articles, ai_response) ==
    LET selected_title == IF In("SELECTED:", ai_response) /\ In("REASONING:", ai_response)
                          THEN AfterTag(ai_response, "SELECTED:")
                          ELSE strip(ai_response)
    IN  IF selected_title = "" THEN articles[1].title ELSE selected_title

\* the first article matched by lower-cased containment in either direction, or 0
PartialMatch(items, selected_title) ==
    LET hit == {i \in 1..Len(items) :
                   either_contains(selected_title, Get(items[i], "title", ""))}
    IN  IF hit = {} THEN 0 ELSE Least(hit)

\* `import os` at line 819 makes os a local name of the whole function: the
\* reads of it at lines 814 and 835 come before any assignment and raise
\* UnboundLocalError, which the handler of line 956 turns into None.
OsIsLocal == TRUE

With(d, key, value) == [k \in DOMAIN d \cup {key} |-> IF k = key THEN value ELSE d[k]]

\* select_best_article: [ret |-> the value returned, file |-> the history file afterwards]
select_best_article(articles, file, now, ai, fault) ==
    IF OsIsLocal \/ fault = "json_read" \/ Len(articles) = 0 \/ ai.kind # "text"
       \/ \E i \in 1..Len(articles) : "title" \notin DOMAIN articles[i]
    THEN [ret |-> None, file |-> file]
    ELSE LET selected_title == ParsedTitle(articles, strip(ai.text))
             exact == ExactMatch(articles, selected_title)
             partial == PartialMatch(articles, selected_title)
             selected_article ==
                 IF exact > 0
                 THEN With(articles[exact], "ai_reasoning",
                           "Selected by AI as most significant technical innovation")
                 ELSE IF partial > 0
                 THEN With(articles[partial], "ai_reasoning",
                           "Selected by AI as most significant technical innovation (partial match)")
                 ELSE With(articles[1], "ai_reasoning", "Fallback selection (AI choice not found)")
         IN  [ret |-> selected_article,
              file |-> add_to_history(selected_article, file, now, fault)]

(***************************************************************************)
(* Internships and jobs (internship_scraper.py, jobs_scraper.py).  A seen  *)
(* file is [exists, ids].                                                  *)
(***************************************************************************)
SeenFaults == {"none", "seen_read", "seen_write"}

\* load_seen_internships: the set of ids read; a failed read gives the empty set
load_seen_internships(file, fault) ==
    IF ~file.exists \/ fault = "seen_read" THEN {} ELSE file.ids

\* a selection that is returned without being recorded
return_without_saving(internship, file, fault) == file

\* save_seen_internship: the file after the call; a failed write is swallowed
save_seen_internship(internship, file, fault) ==
    LET internship_id == Get(internship, "title", "") \o "-" \o Get(internship, "company", "")
                         \o "-" \o Get(internship, "url", "")
    IN  IF fault = "seen_write" THEN file
        ELSE [exists |-> TRUE, ids |-> load_seen_internships(file, fault) \cup {internship_id}]

\* the index of max(items, key = priority_score): the first of the largest
MaxPriority(items) ==
    Least({i \in 1..Len(items) :
              \A j \in 1..Len(items) :
                  Get(items[i], "priority_score", 0) >= Get(items[j], "priority_score", 0)})

\* select_best_internship_fallback: [ret |-> the dict returned, file |-> the seen file afterwards]
select_best_internship_fallback(internships, file, importOk, now, fault) ==
    LET best_internship == fallback_select_best(internships, "internship", now)
        result == With(With(best_internship, "ai_reasoning",
                            "Selected using rule-based fallback algorithm"),
                       "selection_method", "fallback_algorithm")
        simple == With(With(internships[MaxPriority(internships)], "ai_reasoning",
                            "Selected using simple priority-based fallback"),
                       "selection_method", "simple_fallback")
    IN  IF Len(internships) = 0
        THEN [ret |-> [message |-> "No internships to analyze", total_scraped |-> 0,
                       selection_method |-> "fallback_failed"],
              file |-> file]
        ELSE IF importOk
        THEN [ret |-> result, file |-> save_seen_internship(result, file, fault)]
        ELSE [ret |-> simple, file |-> save_seen_internship(simple, file, fault)]

\* internship_scraper.select_best_with_ai
select_best_internship_with_ai(internships, file, ai, importOk, now, fault) ==
    LET selected_title == strip(ai.text)
        match == PartialMatch(internships, selected_title)
        selected == With(internships[match], "ai_reasoning",
                         "Selected by AI as most valuable and legitimate opportunity")
        not_found == With(internships[1], "ai_reasoning", "Fallback selection (AI choice not found)")
        ai_failed == With(internships[1], "ai_reasoning", "Fallback selection (AI failed)")
    IN  IF Len(internships) = 0
        THEN [ret |-> [message |-> "No internships to analyze", total_scraped |-> 0,
                       ai_decision |-> "No internships provided for analysis"],
              file |-> file]
        ELSE IF ai.kind \in {"no_key", "no_client"}
        THEN select_best_internship_fallback(internships, file, importOk, now, fault)
        ELSE IF ai.kind = "throws"
        THEN [ret |-> ai_failed, file |-> save_seen_internship(ai_failed, file, fault)]
        ELSE IF upper(selected_title) = "NONE"
        THEN [ret |-> [message |-> "No suitable internships found matching criteria",
                       total_scraped |-> Len(internships),
                       ai_decision |-> "All internships flagged as low-quality or suspicious"],
              file |-> file]
        ELSE IF match > 0
        THEN [ret |-> selected, file |-> save_seen_internship(selected, file, fault)]
        ELSE [ret |-> not_found, file |-> save_seen_internship(not_found, file, fault)]

\* the index of the first occurrence of sub in s, or 0
Find(sub, s) ==
    LET at == {i \in 1..(Len(s) - Len(sub) + 1) : SubSeq(s, i, i + Len(sub) - 1) = sub}
    IN  IF at = {} THEN 0 ELSE Least(at)

\* normalize_url for urls with at most one query parameter and no fragment: a
\* linkedin.com job view loses a tracking parameter, any other url is returned
\* as it is
normalize_url(url) ==
    LET tracking == <<"refId", "trackingId", "pageNum", "position">>
        rest == IF Find("://", url) > 0 THEN SubSeq(url, Find("://", url) + 3, Len(url)) ELSE ""
        slash == Find("/", rest)
        netloc == IF slash > 0 THEN SubSeq(rest, 1, slash - 1) ELSE rest
        q == Find("?", url)
        path == IF slash = 0 THEN ""
                ELSE IF Find("?", rest) > 0 THEN SubSeq(rest, slash, Find("?", rest) - 1)
                ELSE SubSeq(rest, slash, Len(rest))
        query == IF q > 0 THEN SubSeq(url, q + 1, Len(url)) ELSE ""
        key == IF Find("=", query) > 0 THEN SubSeq(query, 1, Find("=", query) - 1) ELSE query
    IN  IF In("linkedin.com", netloc) /\ In("/jobs/", path \o "/") /\ In("/view/", path \o "/")
           /\ q > 0 /\ \E k \in 1..Len(tracking) : tracking[k] = key
        THEN SubSeq(url, 1, q - 1)
        ELSE url

create_job_signature(job) ==
    Get(job, "title", "") \o "-" \o Get(job, "company", "") \o "-"
        \o normalize_url(Get(job, "url", ""))

SignatureMemo == [it \in ItemUniverse |-> create_job_signature(it)] @@ <<>>

\* load_seen_jobs: the set of signatures read; a failed read gives the empty set
load_seen_jobs(file, fault) ==
    IF ~file.exists \/ fault = "seen_read" THEN {} ELSE file.ids

\* save_seen_job: the file after the call; a failed write is swallowed
save_seen_job(job, file, fault) ==
    LET bare == [k \in DOMAIN job \ {"ai_reasoning", "selection_method"} |-> job[k]]
        identifier == IF bare \in DOMAIN SignatureMemo THEN SignatureMemo[bare]
                      ELSE create_job_signature(job)
    IN  IF fault = "seen_write" THEN file
        ELSE [exists |-> TRUE, ids |-> load_seen_jobs(file, fault) \cup {identifier}]

\* select_best_job_fallback: [ret |-> the dict returned, file |-> the seen file afterwards]
select_best_job_fallback(jobs, file, importOk, now, fault) ==
    LET best_job == fallback_select_best(jobs, "job", now)
        result == With(With(best_job, "ai_reasoning",
                            "Selected using rule-based fallback algorithm"),
                       "selection_method", "fallback_algorithm")
        simple == With(With(jobs[MaxPriority(jobs)], "ai_reasoning",
                            "Selected using simple priority-based fallback"),
                       "selection_method", "simple_fallback")
    IN  IF Len(jobs) = 0
        THEN [ret |-> [message |-> "No jobs to analyze", total_scraped |-> 0,
                       selection_method |-> "fallback_failed"],
              file |-> file]
        ELSE IF importOk
        THEN [ret |-> result, file |-> save_seen_job(result, file, fault)]
        ELSE [ret |-> simple, file |-> save_seen_job(simple, file, fault)]

\* jobs_scraper.select_best_with_ai
select_best_job_with_ai(jobs, file, ai, importOk, now, fault) ==
    LET selected_title == strip(ai.text)
        match == PartialMatch(jobs, selected_title)
        selected == With(jobs[match], "ai_reasoning",
                         "Selected by AI as most valuable and legitimate opportunity")
        not_found == With(jobs[1], "ai_reasoning", "Fallback selection (AI choice not found)")
    IN  IF Len(jobs) = 0
        THEN [ret |-> [message |-> "No jobs to analyze", total_scraped |-> 0,
                       ai_decision |-> "No jobs provided for analysis"],
              file |-> file]
        ELSE IF ai.kind \in {"no_key", "no_client", "throws"}
        THEN select_best_job_fallback(jobs, file, importOk, now, fault)
        ELSE IF upper(selected_title) = "NONE"
        THEN [ret |-> [message |-> "No suitable jobs found matching criteria",
                       total_scraped |-> Len(jobs),
                       ai_decision |-> "All jobs flagged as low-quality or suspicious"],
              file |-> file]
        ELSE IF match > 0
        THEN [ret |-> selected, file |-> save_seen_job(selected, file, fault)]
        ELSE [ret |-> not_found, file |-> save_seen_job(not_found, file, fault)]

(***************************************************************************)
(* State.                                                                  *)
(***************************************************************************)
VARIABLES
    candidates,        \* the candidate list the scraper handed over
    time,              \* the clock, in days
    ticks,             \* clock advances so far
    calls,             \* file-writing operations run so far
    last,              \* the last operation: its name, inputs and returned value
    upskill_history,   \* UPSKILL_HISTORY_FILE
    article_history,   \* HISTORY_FILE of the tech news script
    seen_internships,  \* SEEN_INTERNSHIPS_FILE
    seen_jobs,         \* ../data/seen_jobs.json
    pc,                \* where the selection call in progress stands
    ai_calls,          \* requests that call has sent to the AI service
    disk,              \* the output files of ../data that exist
    written,           \* what the current pipeline run has written to each output file
    step,              \* where the pipeline run stands
    results,           \* the results dictionary of run_pipeline
    run_counter,       \* ../data/tinyurl_run_counter.json
    alias_runs         \* the run numbers under which short URLs were created, oldest first

vars == <<candidates, time, ticks, calls, last, upskill_history, article_history,
          seen_internships, seen_jobs, pc, ai_calls, disk, written, step, results,
          run_counter, alias_runs>>

\* what the whole-call operations leave alone
flow == <<pc, ai_calls, disk>>

\* what the selection scripts leave alone
pipeline == <<written, step, results, run_counter, alias_runs>>

files == <<upskill_history, article_history, seen_internships, seen_jobs>>

NoSeenFile == [exists |-> FALSE, ids |-> {}]

\* no counter file; a counter file holding current_run = n
NoCounter == [exists |-> FALSE]

CounterAt(n) == [exists |-> TRUE, current_run |-> n]

\* the current run has written no output file
NothingWritten == [f \in {} |-> "script"]

\* results before the first step of run_pipeline
NoResults == [pipeline |-> "none"]

NoCall == [op |-> "none", type |-> "", ai |-> AiFail("no_key"), importOk |-> TRUE,
           fault |-> "none", file |-> NoFile, at |-> 0, out |-> None]

\* a call record: the operation, its inputs (file: the history file it found,
\* at: the clock it read) and the value it returned
Call(op, type, ai, importOk, fault, file, out) ==
    [op |-> op, type |-> type, ai |-> ai, importOk |-> importOk, fault |-> fault,
     file |-> file, at |-> time, out |-> out]

\* a history file an earlier run left: one entry stamped at day 0 and one whose
\* date cannot be parsed
DamagedFile ==
    [exists |-> TRUE,
     data |-> [k \in {"title:learn docker", "url:x.io/dk"} |->
                  IF k = "url:x.io/dk" THEN IsoFormat(0) ELSE "yesterday"]]

InitWith(lists, history_files) ==
    /\ candidates \in lists
    /\ time = 0
    /\ ticks = 0
    /\ calls = 0
    /\ last = NoCall
    /\ upskill_history \in history_files
    /\ article_history \in history_files
    /\ seen_internships = NoSeenFile
    /\ seen_jobs = NoSeenFile
    /\ pc = "IDLE"
    /\ ai_calls = 0
    /\ disk = {}
    /\ written = NothingWritten
    /\ step = "IDLE"
    /\ results = NoResults
    /\ run_counter = NoCounter
    /\ alias_runs = <<>>

Init == InitWith(CandidateLists, {NoFile})

\* time passes between two operations: a day, or a whole retention window
Tick ==
    /\ ticks < MaxTicks
    /\ \E d \in {1, 30} : time' = time + d
    /\ ticks' = ticks + 1
    /\ UNCHANGED <<candidates, calls, last, files, flow, pipeline>>

\* a call that leaves every file alone
Returned(call) ==
    /\ last' = call
    /\ UNCHANGED <<candidates, time, ticks, calls, files, flow, pipeline>>

FallbackSelectBest ==
    \E t \in ContentTypes :
        Returned(Call("fallback_select_best", t, AiFail("no_key"), TRUE, "none", NoFile,
                      fallback_select_best(candidates, t, time)))

AiSelectContent ==
    \E t \in ContentTypes, ai \in AiOutcomes(TitleReplies(candidates)), importOk \in BOOLEAN :
        Returned(Call("ai_select_content", t, ai, importOk, "none", NoFile,
                      ai_select_content(candidates, t, ai, importOk, time)))

NextSelector == FallbackSelectBest \/ AiSelectContent

SpecSelector == Init /\ [][NextSelector]_vars

\* a call of the upskill script: res is [ret, file]
UpskillCall(op, ai, fault, res) ==
    /\ calls < MaxCalls
    /\ calls' = calls + 1
    /\ last' = Call(op, "upskill", ai, TRUE, fault, upskill_history, res.ret)
    /\ upskill_history' = res.file
    /\ UNCHANGED <<candidates, time, ticks, article_history, seen_internships, seen_jobs, flow, pipeline>>

LoadUpskillHistory ==
    \E fault \in {"none", "hist_read", "hist_write"} :
        UpskillCall("load_upskill_history", AiFail("no_key"), fault,
                    load_upskill_history(upskill_history, time, fault))

AddToUpskillHistory ==
    \E i \in 1..Len(candidates), fault \in {"none", "hist_read", "hist_write"} :
        UpskillCall("add_to_upskill_history", AiFail("no_key"), fault,
                    [ret |-> candidates[i],
                     file |-> add_to_upskill_history(candidates[i], upskill_history, time, fault)])

FilterPreviouslySelected ==
    \E fault \in {"none", "hist_read", "hist_write"} :
        UpskillCall("filter_previously_selected", AiFail("no_key"), fault,
                    filter_previously_selected(candidates, upskill_history, time, fault))

SelectBestUpskillArticle ==
    \E ai \in AiOutcomes(UpskillReplies), fault \in Faults :
        UpskillCall("select_best_upskill_article", ai, fault,
                    select_best_upskill_article(candidates, upskill_history, time, ai, fault))

SelectBestUpskillFallback ==
    \E fault \in Faults :
        UpskillCall("select_best_upskill_fallback", AiFail("no_key"), fault,
                    select_best_upskill_fallback(candidates, upskill_history, time, fault))

\* a call of the tech news script: res is [ret, file]
NewsCall(op, ai, fault, res) ==
    /\ calls < MaxCalls
    /\ calls' = calls + 1
    /\ last' = Call(op, "tech_news", ai, TRUE, fault, article_history, res.ret)
    /\ article_history' = res.file
    /\ UNCHANGED <<candidates, time, ticks, upskill_history, seen_internships, seen_jobs, flow, pipeline>>

AddToHistory ==
    \E i \in 1..Len(candidates), fault \in {"none", "hist_read", "hist_write"} :
        NewsCall("add_to_history", AiFail("no_key"), fault,
                 [ret |-> candidates[i],
                  file |-> add_to_history(candidates[i], article_history, time, fault)])

FilterDuplicateArticles ==
    \E fault \in {"none", "hist_read", "hist_write"} :
        NewsCall("filter_duplicate_articles", AiFail("no_key"), fault,
                 filter_duplicate_articles(candidates, article_history, time, fault))

SelectBestArticle ==
    \E ai \in AiOutcomes(TitleReplies(candidates)), fault \in {"none", "json_read", "hist_write"} :
        NewsCall("select_best_article", ai, fault,
                 select_best_article(candidates, article_history, time, ai, fault))

\* the lists of articles: items without a company
ArticleLists == {l \in CandidateLists : \A i \in 1..Len(l) : "company" \notin DOMAIN l[i]}

\* the History Store of the two article scripts
InitHistory == InitWith(ArticleLists, {NoFile, DamagedFile} \cup CorruptFiles)

NextHistory ==
    \/ Tick
    \/ LoadUpskillHistory
    \/ AddToUpskillHistory
    \/ FilterPreviouslySelected
    \/ AddToHistory
    \/ FilterDuplicateArticles

SpecHistory == InitHistory /\ [][NextHistory]_vars

\* the selection calls of the two article scripts
NextArticles ==
    \/ Tick
    \/ SelectBestUpskillArticle
    \/ SelectBestUpskillFallback
    \/ SelectBestArticle

InitArticles == InitWith(ArticleLists, {NoFile, DamagedFile}) /\ article_history = NoFile

SpecArticles == InitArticles /\ [][NextArticles]_vars

\* a call of the internship or the jobs script: it leaves the history files alone
SeenCall(op, type, ai, importOk, fault, res) ==
    /\ calls < MaxCalls
    /\ calls' = calls + 1
    /\ last' = Call(op, type, ai, importOk, fault, NoFile, res.ret)
    /\ UNCHANGED <<candidates, time, ticks, upskill_history, article_history, flow, pipeline>>

SelectBestInternshipWithAi ==
    \E ai \in AiOutcomes(TitleReplies(candidates)), importOk \in BOOLEAN, fault \in SeenFaults :
        LET res == select_best_internship_with_ai(candidates, seen_internships, ai, importOk,
                                                  time, fault)
        IN  /\ SeenCall("internship.select_best_with_ai", "internship", ai, importOk, fault, res)
            /\ seen_internships' = res.file
            /\ UNCHANGED seen_jobs

SelectBestInternshipFallback ==
    \E importOk \in BOOLEAN, fault \in SeenFaults :
        LET res == select_best_internship_fallback(candidates, seen_internships, importOk,
                                                   time, fault)
        IN  /\ SeenCall("select_best_internship_fallback", "internship", AiFail("no_key"),
                        importOk, fault, res)
            /\ seen_internships' = res.file
            /\ UNCHANGED seen_jobs

SelectBestJobWithAi ==
    \E ai \in AiOutcomes(TitleReplies(candidates)), importOk \in BOOLEAN, fault \in SeenFaults :
        LET res == select_best_job_with_ai(candidates, seen_jobs, ai, importOk, time, fault)
        IN  /\ SeenCall("jobs.select_best_with_ai", "job", ai, importOk, fault, res)
            /\ seen_jobs' = res.file
            /\ UNCHANGED seen_internships

SelectBestJobFallback ==
    \E importOk \in BOOLEAN, fault \in SeenFaults :
        LET res == select_best_job_fallback(candidates, seen_jobs, importOk, time, fault)
        IN  /\ SeenCall("select_best_job_fallback", "job", AiFail("no_key"), importOk, fault, res)
            /\ seen_jobs' = res.file
            /\ UNCHANGED seen_internships

NextJobs ==
    \/ SelectBestInternshipWithAi
    \/ SelectBestInternshipFallback
    \/ SelectBestJobWithAi
    \/ SelectBestJobFallback

SpecJobs == Init /\ [][NextJobs]_vars

(***************************************************************************)
(* A whole run of the internship or the jobs script: main() removes the    *)
(* postings seen before, then selects among the rest.  The candidates are  *)
(* the list the date, branch and location (experience) filters leave.      *)
(***************************************************************************)
\* one injected fault per run: the read of remove_duplicates, or the read or the
\* write of save_seen_*
MainFaults == SeenFaults \cup {"dedup_read"}

DedupFault(fault) == IF fault = "dedup_read" THEN "seen_read" ELSE "none"

SaveFault(fault) == IF fault = "dedup_read" THEN "none" ELSE fault

\* two sightings of one LinkedIn posting, under different tracking parameters
TrackedJobs ==
    <<[title |-> "Developer", company |-> "Acme",
       url |-> "https://www.linkedin.com/jobs/view/dev-at-acme-7?refId=a"],
      [title |-> "Developer", company |-> "Acme",
       url |-> "https://www.linkedin.com/jobs/view/dev-at-acme-7?refId=b"]>>

\* the items at the indices of keep, in the order of the list
RECURSIVE KeptItems(_, _)
KeptItems(items, keep) ==
    IF items = <<>> THEN <<>>
    ELSE KeptItems(SubSeq(items, 1, Len(items) - 1), keep)
             \o (IF Len(items) \in keep THEN <<items[Len(items)]>> ELSE <<>>)

\* internship_scraper.remove_duplicates: the first posting of each identifier
\* that is not in the seen file
internship_remove_duplicates(internships, file, fault) ==
    LET Id(x) == Get(x, "title", "") \o "-" \o Get(x, "company", "") \o "-" \o Get(x, "url", "")
        seen_internships_loaded == load_seen_internships(file, fault)
    IN  KeptItems(internships,
                  {i \in 1..Len(internships) :
                      /\ Id(internships[i]) \notin seen_internships_loaded
                      /\ \A j \in 1..(i - 1) : Id(internships[j]) # Id(internships[i])})

\* jobs_scraper.remove_duplicates: the same on normalized signatures
jobs_remove_duplicates(jobs, file, fault) ==
    LET Id(x) == IF x \in DOMAIN SignatureMemo THEN SignatureMemo[x] ELSE create_job_signature(x)
        seen_jobs_loaded == load_seen_jobs(file, fault)
    IN  KeptItems(jobs,
                  {i \in 1..Len(jobs) :
                      /\ Id(jobs[i]) \notin seen_jobs_loaded
                      /\ \A j \in 1..(i - 1) : Id(jobs[j]) # Id(jobs[i])})

\* internship_scraper.main from the filtered list on: [ret, file]
internship_main(internships, file, ai, importOk, now, fault) ==
    LET unique_internships == internship_remove_duplicates(internships, file, DedupFault(fault))
    IN  IF internships = <<>>
        THEN [ret |-> [message |-> "No internships found from any source"], file |-> file]
        ELSE IF unique_internships = <<>>
        THEN [ret |-> [message |-> "No suitable internships found matching criteria"],
              file |-> file]
        ELSE select_best_internship_with_ai(unique_internships, file, ai, importOk, now,
                                            SaveFault(fault))

\* jobs_scraper.main from the filtered list on: [ret, file]
jobs_main(jobs, file, ai, importOk, now, fault) ==
    LET unique_jobs == jobs_remove_duplicates(jobs, file, DedupFault(fault))
    IN  IF jobs = <<>>
        THEN [ret |-> [message |-> "No jobs found from any source"], file |-> file]
        ELSE IF unique_jobs = <<>>
        THEN [ret |-> [message |-> "No jobs passed filtering criteria"], file |-> file]
        ELSE select_best_job_with_ai(unique_jobs, file, ai, importOk, now, SaveFault(fault))

InternshipMain ==
    \E ai \in AiOutcomes(TitleReplies(candidates)), importOk \in BOOLEAN, fault \in MainFaults :
        LET res == internship_main(candidates, seen_internships, ai, importOk, time, fault)
        IN  /\ SeenCall("internship_scraper.main", "internship", ai, importOk, fault, res)
            /\ seen_internships' = res.file
            /\ UNCHANGED seen_jobs

JobsMain ==
    \E ai \in AiOutcomes(TitleReplies(candidates)), importOk \in BOOLEAN, fault \in MainFaults :
        LET res == jobs_main(candidates, seen_jobs, ai, importOk, time, fault)
        IN  /\ SeenCall("jobs_scraper.main", "job", ai, importOk, fault, res)
            /\ seen_jobs' = res.file
            /\ UNCHANGED seen_internships

NextMain ==
    \/ InternshipMain
    \/ JobsMain

\* lists of the two postings and of an item that has no company field
PostingLists ==
    {l \in CandidateLists :
        \A i \in 1..Len(l) : "company" \in DOMAIN l[i] \/ l[i].url = "x.io/py"}

SpecMain == InitWith(PostingLists \cup {TrackedJobs}, {NoFile}) /\ [][NextMain]_vars

(***************************************************************************)
(* The four scorers called on one item.                                    *)
(***************************************************************************)
ScoreCall(op, type, score) ==
    /\ calls < MaxCalls
    /\ calls' = calls + 1
    /\ last' = Call(op, type, AiFail("no_key"), TRUE, "none", NoFile, score)
    /\ UNCHANGED <<candidates, time, ticks, files, flow, pipeline>>

ScoreTechArticle ==
    ScoreCall("score_tech_article", "tech_news", ItemScore(candidates[1], "tech_news", time))

ScoreInternship == ScoreCall("score_internship", "internship", ItemScore(candidates[1], "internship", time))

ScoreJob == ScoreCall("score_job", "job", ItemScore(candidates[1], "job", time))

ScoreUpskillArticle ==
    ScoreCall("score_upskill_article", "upskill",
              ItemScore(candidates[1], "upskill", time))

NextScore ==
    \/ Tick
    \/ ScoreTechArticle
    \/ ScoreInternship
    \/ ScoreJob
    \/ ScoreUpskillArticle
    \/ FallbackSelectBest

SpecScore ==
    InitWith({<<it>> : it \in ScoreItems} \cup ScenarioLists, {NoFile}) /\ [][NextScore]_vars

(***************************************************************************)
(* The cleanup that opens a pipeline run.  RobustPipeline carries its own   *)
(* copy of the two lists and of the function, identical to these.          *)
(***************************************************************************)
\* (a list to clear that names a history file as well)
OUTPUT_FILES_AND_A_HISTORY ==
    <<"../data/ai_selected_article.json",
      "../data/upskill_articles_history.json",
      "../data/daily_tech_digest.json",
      "../data/tinyurl_run_counter.json">>

OUTPUT_FILES_TO_CLEAR ==
    <<"../data/ai_selected_article.json",
      "../data/ai_selected_upskill_article.json",
      "../data/daily_tech_digest.json",
      "../data/filtered_internships.json",
      "../data/filtered_jobs.json",
      "../data/selected_internship.json",
      "../data/selected_job.json",
      "../data/shortened_urls_digest.json",
      "../data/todays_tech_news.json",
      "../data/tji_daily_message.json",
      "../data/upskill_articles.json">>

PERSISTENT_FILES_TO_PRESERVE ==
    <<"../data/upskill_articles_history.json",
      "../data/tech_news_history.json",
      "../data/seen_internships.json",
      "../data/seen_jobs.json",
      "../data/tinyurl_run_counter.json">>

\* (a cleanup whose os.remove is left out)
cleanup_without_remove(existing, preserved, failing) ==
    LET Cleared(f) == f \in existing /\ f \notin failing
        Missing(f) == f \notin existing
        Failed(f) == f \in existing /\ f \in failing
        cleared == SelectSeq(OUTPUT_FILES_TO_CLEAR, Cleared)
        errors == SelectSeq(OUTPUT_FILES_TO_CLEAR, Failed)
        remaining == existing
        Kept(f) == f \in preserved /\ f \in remaining
    IN  [ret |-> [files_cleared |-> cleared,
                  files_not_found |-> SelectSeq(OUTPUT_FILES_TO_CLEAR, Missing),
                  files_preserved |-> SelectSeq(PERSISTENT_FILES_TO_PRESERVE, Kept),
                  errors |-> [i \in 1..Len(errors) |-> "Failed to clear " \o errors[i]],
                  total_cleared |-> Len(cleared),
                  total_preserved |-> Len(SelectSeq(PERSISTENT_FILES_TO_PRESERVE, Kept))],
         disk |-> remaining]

\* cleanup_output_files() run with the files `existing` in ../data, of which the
\* persistent ones are `preserved`; getsize or remove raises for the files in
\* `failing`
cleanup_output_files(existing, preserved, failing) ==
    LET Cleared(f) == f \in existing /\ f \notin failing
        Missing(f) == f \notin existing
        Failed(f) == f \in existing /\ f \in failing
        cleared == SelectSeq(OUTPUT_FILES_TO_CLEAR, Cleared)
        errors == SelectSeq(OUTPUT_FILES_TO_CLEAR, Failed)
        remaining == existing \ {cleared[i] : i \in 1..Len(cleared)}
        Kept(f) == f \in preserved /\ f \in remaining
    IN  [ret |-> [files_cleared |-> cleared,
                  files_not_found |-> SelectSeq(OUTPUT_FILES_TO_CLEAR, Missing),
                  files_preserved |-> SelectSeq(PERSISTENT_FILES_TO_PRESERVE, Kept),
                  errors |-> [i \in 1..Len(errors) |-> "Failed to clear " \o errors[i]],
                  total_cleared |-> Len(cleared),
                  total_preserved |-> Len(SelectSeq(PERSISTENT_FILES_TO_PRESERVE, Kept))],
         disk |-> remaining]

\* the persistent files that exist
PersistentOnDisk ==
    {PERSISTENT_FILES_TO_PRESERVE[i] : i \in
        {j \in 1..4 : <<upskill_history, article_history, seen_internships, seen_jobs>>[j].exists}}
    \cup (IF run_counter.exists THEN {PERSISTENT_FILES_TO_PRESERVE[5]} ELSE {})

CleanupCall(op) ==
    \E failing \in {{}} \cup {{f} : f \in disk} :
        LET done == cleanup_output_files(disk \cup PersistentOnDisk, PersistentOnDisk, failing)
            Left(i, file, none) ==
                IF PERSISTENT_FILES_TO_PRESERVE[i] \in done.disk THEN file ELSE none
        IN  /\ calls < MaxCalls
            /\ calls' = calls + 1
            /\ disk' = done.disk \ {PERSISTENT_FILES_TO_PRESERVE[i] : i \in 1..5}
            /\ upskill_history' = Left(1, upskill_history, NoFile)
            /\ article_history' = Left(2, article_history, NoFile)
            /\ seen_internships' = Left(3, seen_internships, NoSeenFile)
            /\ seen_jobs' = Left(4, seen_jobs, NoSeenFile)
            /\ run_counter' = Left(5, run_counter, NoCounter)
            /\ last' = Call(op, "", AiFail("no_key"), TRUE,
                            IF failing = {} THEN "none" ELSE "remove", NoFile, done.ret)
            /\ UNCHANGED <<candidates, time, ticks, pc, ai_calls, written, step, results,
                           alias_runs>>

CleanupOutputFiles == CleanupCall("cleanup_output_files")

RobustCleanupOutputFiles == CleanupCall("RobustPipeline.cleanup_output_files")

\* what an earlier pipeline run left in ../data
InitCleanup ==
    /\ candidates = <<>>
    /\ time = 0
    /\ ticks = 0
    /\ calls = 0
    /\ last = NoCall
    /\ upskill_history \in {NoFile, DamagedFile}
    /\ article_history = NoFile
    /\ seen_internships = NoSeenFile
    /\ seen_jobs = NoSeenFile
    /\ pc = "IDLE"
    /\ ai_calls = 0
    /\ disk \in SUBSET {OUTPUT_FILES_TO_CLEAR[i] : i \in 1..Len(OUTPUT_FILES_TO_CLEAR)}
    /\ written = NothingWritten
    /\ step = "IDLE"
    /\ results = NoResults
    /\ run_counter \in {NoCounter, CounterAt(3)}
    /\ alias_runs = <<>>

NextCleanup == CleanupOutputFiles \/ RobustCleanupOutputFiles

SpecCleanup == InitCleanup /\ [][NextCleanup]_vars

(***************************************************************************)
(* The TinyURL shortener (tinyurl_shortener.py): one run of the script.    *)
(* A run meets at most one injected fault: the counter file cannot be      *)
(* read, the output file cannot be written, the counter file cannot be     *)
(* written.                                                                *)
(***************************************************************************)
URL_ALIAS_FORMATS ==
    [tech_news |-> "tech-news-tji-", internships |-> "internship-tji-",
     jobs |-> "placement-update-tji-", upskill_articles |-> "upskill-tji-"]

RunFaults == {"none", "counter_read", "out_write", "counter_write"}

\* counter files that json.load rejects, or that hold no current_run
CounterFiles == {NoCounter, CounterAt(3), [exists |-> TRUE], [exists |-> TRUE, corrupt |-> "not_json"]}

\* load_run_counter
load_run_counter(file, fault) ==
    IF fault = "counter_read" \/ ~file.exists \/ "current_run" \notin DOMAIN file THEN 1
    ELSE file.current_run

\* save_run_counter: the file afterwards
save_run_counter(file, run_number, fault) ==
    IF fault = "counter_write" THEN file ELSE CounterAt(run_number)

\* generate_alias
generate_alias(category, run_number) ==
    IF category \notin DOMAIN URL_ALIAS_FORMATS
    THEN "tji-" \o category \o "-" \o ToString(run_number)
    ELSE URL_ALIAS_FORMATS[category] \o ToString(run_number)

\* shorten_single_url: the alias under which the short URL was created, or None;
\* api is what the service answers: it accepts the alias, refuses it as taken
\* (HTTP 422) and accepts the one with the time suffix, or fails every attempt
shorten_single_url(alias, api) ==
    CASE api = "ok" -> [tiny_url |-> alias]
      [] api = "alias_taken" -> [tiny_url |-> alias \o "_ts"]
      [] OTHER -> None

\* (a run that advances the counter before it saves its output)
run_incrementing_first(file, digest, api, fault) ==
    LET run_number == load_run_counter(file, fault)
        processed == {shorten_single_url(generate_alias(c, run_number), api) : c \in digest}
        made == {p.tiny_url : p \in processed \ {None}}
    IN  IF digest = {}
        THEN [ret |-> FALSE, run_number |-> run_number, aliases |-> {}, saved |-> FALSE,
              counter |-> file]
        ELSE [ret |-> fault # "out_write", run_number |-> run_number, aliases |-> made,
              saved |-> fault # "out_write",
              counter |-> save_run_counter(file, run_number + 2, fault)]

\* TinyURLShortener().run(): digest is the set of categories of the input file
\* that carry a valid URL (empty as well when the file is missing or invalid)
run(file, digest, api, fault) ==
    LET run_number == load_run_counter(file, fault)
        processed == {shorten_single_url(generate_alias(c, run_number), api) : c \in digest}
        made == {p.tiny_url : p \in processed \ {None}}
    IN  IF digest = {}
        THEN [ret |-> FALSE, run_number |-> run_number, aliases |-> {}, saved |-> FALSE,
              counter |-> file]
        ELSE IF fault = "out_write"
        THEN [ret |-> FALSE, run_number |-> run_number, aliases |-> made, saved |-> FALSE,
              counter |-> file]
        ELSE [ret |-> TRUE, run_number |-> run_number, aliases |-> made, saved |-> TRUE,
              counter |-> save_run_counter(file, run_number + 1, fault)]

\* python tinyurl_shortener.py
ShortenerRun ==
    \E digest \in {{}, {"tech_news"}, {"tech_news", "jobs"}},
       api \in {"ok", "alias_taken", "down"}, fault \in RunFaults :
        LET done == run(run_counter, digest, api, fault)
        IN  /\ calls < MaxRuns
            /\ calls' = calls + 1
            /\ run_counter' = done.counter
            /\ alias_runs' = IF done.aliases = {} THEN alias_runs
                             ELSE Append(alias_runs, done.run_number)
            /\ disk' = IF done.saved THEN disk \cup {OUTPUT_FILES_TO_CLEAR[8]} ELSE disk
            /\ last' = Call("TinyURLShortener.run", "", AiFail("no_key"), TRUE, fault, NoFile,
                            [ret |-> done.ret, run_number |-> done.run_number,
                             aliases |-> done.aliases, api |-> api])
            /\ UNCHANGED <<candidates, time, ticks, files, pc, ai_calls, written, step, results>>

InitTinyUrl ==
    /\ candidates = <<>>
    /\ time = 0
    /\ ticks = 0
    /\ calls = 0
    /\ last = NoCall
    /\ upskill_history = NoFile
    /\ article_history = NoFile
    /\ seen_internships = NoSeenFile
    /\ seen_jobs = NoSeenFile
    /\ pc = "IDLE"
    /\ ai_calls = 0
    /\ disk \in {{OUTPUT_FILES_TO_CLEAR[3]}, {OUTPUT_FILES_TO_CLEAR[3], OUTPUT_FILES_TO_CLEAR[8]}}
    /\ written = NothingWritten
    /\ step = "IDLE"
    /\ results = NoResults
    /\ run_counter \in CounterFiles
    /\ alias_runs = <<>>

NextTinyUrl == ShortenerRun

SpecTinyUrl == InitTinyUrl /\ [][NextTinyUrl]_vars

(***************************************************************************)
(* A pipeline run step by step (run_daily_digest_pipeline.run_pipeline and *)
(* RobustPipeline.run_pipeline): cleanup, the four scrapers, the           *)
(* aggregator, the URL shortener, the message drafter, the Twilio sender.  *)
(* disk is the set of output files that exist; written gives, for a file   *)
(* written during this run, what wrote it: "script" (the step's script),   *)
(* "empty" (a file of size 0), "no_content" (a fallback file with status   *)
(* no_content) or "sample" (the content of demo_simple_scraper).  A file   *)
(* on disk that is not in DOMAIN written is left over from an earlier run. *)
(***************************************************************************)
SCRAPERS ==
    <<[name |-> "Tech News Scraper", output_file |-> "../data/ai_selected_article.json",
       content_type |-> "tech_news"],
      [name |-> "Internship Scraper", output_file |-> "../data/selected_internship.json",
       content_type |-> "internships"],
      [name |-> "Job Scraper", output_file |-> "../data/selected_job.json",
       content_type |-> "jobs"],
      [name |-> "Upskill Articles Scraper",
       output_file |-> "../data/ai_selected_upskill_article.json",
       content_type |-> "upskill_articles"]>>

AGGREGATOR == [name |-> "Daily Digest Aggregator", output_file |-> "../data/daily_tech_digest.json"]

URL_SHORTENER == [name |-> "TinyURL Shortener", output_file |-> "../data/shortened_urls_digest.json"]

MESSAGE_DRAFTER == [name |-> "TJI Message Drafter", output_file |-> "../data/tji_daily_message.json"]

PipelineKinds == {"run_daily_digest_pipeline", "RobustPipeline"}

\* what a script run as a subprocess does: its exit code (1 stands for any
\* non-zero code, a timeout or a crash) and what it leaves at its output path
ScriptOutcomes ==
    {[exit |-> 0, output |-> "script"], [exit |-> 0, output |-> "none"],
     [exit |-> 0, output |-> "empty"], [exit |-> 1, output |-> "none"]}

\* the files an earlier run can have left: none, a message, or all of them
LeftoverSets ==
    {{}, {MESSAGE_DRAFTER.output_file},
     {SCRAPERS[i].output_file : i \in 1..4}
         \cup {AGGREGATOR.output_file, URL_SHORTENER.output_file, MESSAGE_DRAFTER.output_file}}

NotRun == [ran |-> FALSE]

\* open(path, 'w') and json.dump by the writer named
WriteFile(fs, path, by) ==
    [disk |-> fs.disk \cup {path}, written |-> With(fs.written, path, by)]

\* the files after a script has run
AfterScript(fs, path, outcome) ==
    IF outcome.output = "none" THEN fs ELSE WriteFile(fs, path, outcome.output)

\* run_script / _run_single_script: success is exit code 0
run_script(outcome) == outcome.exit = 0

\* check_output_file: the file exists and its size is positive
check_output_file(fs, file_path) ==
    /\ file_path \in fs.disk
    /\ file_path \in DOMAIN fs.written => fs.written[file_path] # "empty"

\* create_fallback_output: a failed write is logged and nothing else happens
create_fallback_output(fs, file_path, write_fails) ==
    IF write_fails THEN fs ELSE WriteFile(fs, file_path, "no_content")

\* the scraper part of the loop body of run_daily_digest_pipeline.run_pipeline
run_scraper(fs, scraper, outcome, write_fails) ==
    LET ran == AfterScript(fs, scraper.output_file, outcome)
        success == run_script(outcome)
        output_exists == check_output_file(ran, scraper.output_file)
    IN  [fs |-> IF success /\ output_exists THEN ran
                ELSE create_fallback_output(ran, scraper.output_file, write_fails),
         result |-> [success |-> success, output_file_exists |-> output_exists,
                     method |-> "run_script"]]

\* RobustPipeline._create_minimal_fallback
create_minimal_fallback(fs, scraper, write_fails) ==
    IF write_fails THEN fs ELSE WriteFile(fs, scraper.output_file, "no_content")

\* RobustPipeline._run_fallback_for_specific_output: [ret, fs]
run_fallback_for_specific_output(fs, scraper, write_fails) ==
    LET name == Lower(scraper.name)
        known == \/ In("tech_news", name)
                 \/ In("internship", name)
                 \/ In("job", name)
                 \/ In("upskill", name)
    IN  IF known /\ ~write_fails
        THEN [ret |-> TRUE, fs |-> WriteFile(fs, scraper.output_file, "sample")]
        ELSE [ret |-> FALSE, fs |-> fs]

\* RobustPipeline.run_script_with_fallback followed by check_output_file, as in
\* the loop body of RobustPipeline.run_pipeline; fallback_script tells whether
\* demo_simple_scraper.py exists in the working directory; a write that fails
\* at the output path fails for the sample content and for the minimal fallback
run_script_with_fallback(fs, scraper, outcome, fallback_script, write_fails) ==
    LET ran == AfterScript(fs, scraper.output_file, outcome)
        sample == run_fallback_for_specific_output(ran, scraper, write_fails)
        done == IF run_script(outcome) THEN [success |-> TRUE, method |-> "main_script", fs |-> ran]
                ELSE IF fallback_script /\ sample.ret
                THEN [success |-> TRUE, method |-> "fallback_script", fs |-> sample.fs]
                ELSE [success |-> FALSE, method |-> "minimal_fallback",
                      fs |-> create_minimal_fallback(ran, scraper, write_fails)]
    IN  [fs |-> done.fs,
         result |-> [success |-> done.success,
                     output_file_exists |-> check_output_file(done.fs, scraper.output_file),
                     method |-> done.method]]

\* create_daily_digest: the content types whose input file validates and is
\* not a no_content file
DigestContent(fs) ==
    {SCRAPERS[i].content_type :
        i \in {j \in 1..4 : /\ SCRAPERS[j].output_file \in fs.disk
                            /\ SCRAPERS[j].output_file \in DOMAIN fs.written
                                   => fs.written[SCRAPERS[j].output_file] \in {"script", "sample"}}}

\* one fault is injected per run at most
MayFail == {FALSE} \cup {f \in {TRUE} : step # "IDLE" /\ ~results.faulted}

StartPipeline ==
    \E kind \in PipelineKinds, fallback_script \in BOOLEAN,
       failing \in {{}} \cup {{f} : f \in disk} :
        LET done == cleanup_output_files(disk \cup PersistentOnDisk, PersistentOnDisk, failing)
        IN  /\ step = "IDLE"
            /\ results = NoResults
            /\ kind = "run_daily_digest_pipeline" => ~fallback_script
            /\ disk' = done.disk \ PersistentOnDisk
            /\ written' = NothingWritten
            /\ results' = [pipeline |-> kind, fallback_script |-> fallback_script,
                           faulted |-> failing # {}, cleanup |-> done.ret.errors,
                           scrapers |-> <<>>, digest |-> {}, aggregator |-> NotRun,
                           url_shortener |-> NotRun, message_drafter |-> NotRun,
                           twilio_sender |-> NotRun]
            /\ step' = "SCRAPERS"
            /\ UNCHANGED <<candidates, time, ticks, calls, last, files, pc, ai_calls,
                           run_counter, alias_runs>>

RunScraper ==
    \E outcome \in ScriptOutcomes, write_fails \in MayFail :
        LET scraper == SCRAPERS[Len(results.scrapers) + 1]
            fs == [disk |-> disk, written |-> written]
            done == IF results.pipeline = "RobustPipeline"
                    THEN run_script_with_fallback(fs, scraper, outcome, results.fallback_script,
                                                  write_fails)
                    ELSE run_scraper(fs, scraper, outcome, write_fails)
        IN  /\ step = "SCRAPERS"
            /\ Len(results.scrapers) < 4
            /\ write_fails => IF results.pipeline = "RobustPipeline" THEN ~run_script(outcome)
                              ELSE ~(done.result.success /\ done.result.output_file_exists)
            /\ disk' = done.fs.disk
            /\ written' = done.fs.written
            /\ results' = [results EXCEPT !.scrapers = Append(@, done.result),
                                          !.faulted = @ \/ write_fails]
            /\ UNCHANGED <<candidates, time, ticks, calls, last, files, pc, ai_calls, step,
                           run_counter, alias_runs>>

\* python daily_tech_aggregator.py: exit code 0 also when the digest is not saved
RunAggregator ==
    \E exit \in {0, 1}, write_fails \in MayFail :
        LET fs == [disk |-> disk, written |-> written]
            saved == exit = 0 /\ ~write_fails
            done == IF saved THEN WriteFile(fs, AGGREGATOR.output_file, "script") ELSE fs
        IN  /\ step = "SCRAPERS"
            /\ Len(results.scrapers) = 4
            /\ write_fails => exit = 0
            /\ disk' = done.disk
            /\ written' = done.written
            /\ results' = [results EXCEPT
                               !.aggregator = [ran |-> TRUE, success |-> exit = 0,
                                               output_file_exists |->
                                                   check_output_file(done, AGGREGATOR.output_file)],
                               !.digest = IF saved THEN DigestContent(fs) ELSE @,
                               !.faulted = @ \/ write_fails]
            /\ step' = IF results.pipeline = "RobustPipeline" THEN "DRAFTER" ELSE "SHORTENER"
            /\ UNCHANGED <<candidates, time, ticks, calls, last, files, pc, ai_calls,
                           run_counter, alias_runs>>

\* the URL shortener step of run_daily_digest_pipeline.run_pipeline; the digest
\* the shortener reads is the one saved in this run, or nothing
RunShortener ==
    \E api \in {"ok", "down"}, fault \in {"none"} \cup {f \in RunFaults : step # "IDLE" /\ ~results.faulted} :
        LET fs == [disk |-> disk, written |-> written]
            input == IF AGGREGATOR.output_file \in DOMAIN written THEN results.digest ELSE {}
            done == run(run_counter, input, api, fault)
            after == IF done.saved THEN WriteFile(fs, URL_SHORTENER.output_file, "script") ELSE fs
        IN  /\ step = "SHORTENER"
            /\ results.aggregator.success
            /\ run_counter' = done.counter
            /\ alias_runs' = IF done.aliases = {} THEN alias_runs
                             ELSE Append(alias_runs, done.run_number)
            /\ disk' = after.disk
            /\ written' = after.written
            /\ results' = [results EXCEPT
                               !.url_shortener = [ran |-> TRUE, success |-> done.ret,
                                                  output_file_exists |->
                                                      check_output_file(after,
                                                                        URL_SHORTENER.output_file)],
                               !.faulted = @ \/ fault # "none"]
            /\ step' = "DRAFTER"
            /\ UNCHANGED <<candidates, time, ticks, calls, last, files, pc, ai_calls>>

\* the shortener is skipped when the aggregator failed
SkipShortener ==
    /\ step = "SHORTENER"
    /\ ~results.aggregator.success
    /\ step' = "DRAFTER"
    /\ UNCHANGED <<candidates, time, ticks, calls, last, files, flow, written, results,
                   run_counter, alias_runs>>

\* is the message drafter started
DrafterStarts ==
    IF results.pipeline = "RobustPipeline"
    THEN results.aggregator.success /\ results.aggregator.output_file_exists
    ELSE \/ results.url_shortener.ran /\ results.url_shortener.success
         \/ results.aggregator.success

\* python message_drafter.py: main() returns without writing when the shortened
\* digest cannot be loaded, and logs a failed write; exit code 0 in both cases
RunDrafter ==
    \E exit \in {0, 1}, write_fails \in MayFail :
        LET fs == [disk |-> disk, written |-> written]
            data == URL_SHORTENER.output_file \in disk
            saved == exit = 0 /\ data /\ ~write_fails
            done == IF saved THEN WriteFile(fs, MESSAGE_DRAFTER.output_file, "script") ELSE fs
        IN  /\ step = "DRAFTER"
            /\ DrafterStarts
            /\ write_fails => exit = 0 /\ data
            /\ disk' = done.disk
            /\ written' = done.written
            /\ results' = [results EXCEPT
                               !.message_drafter =
                                   [ran |-> TRUE, success |-> exit = 0,
                                    output_file_exists |->
                                        check_output_file(done, MESSAGE_DRAFTER.output_file)],
                               !.faulted = @ \/ write_fails]
            /\ step' = "TWILIO"
            /\ UNCHANGED <<candidates, time, ticks, calls, last, files, pc, ai_calls,
                           run_counter, alias_runs>>

SkipDrafter ==
    /\ step = "DRAFTER"
    /\ ~DrafterStarts
    /\ step' = "TWILIO"
    /\ UNCHANGED <<candidates, time, ticks, calls, last, files, flow, written, results,
                   run_counter, alias_runs>>

\* is the Twilio sender started
TwilioStarts ==
    /\ results.message_drafter.ran
    /\ results.message_drafter.success
    /\ results.pipeline = "RobustPipeline" => results.message_drafter.output_file_exists

\* python twillo.py: opens the message file and sends its drafted_message; read
\* is what wrote the file it opened, "leftover" for a file of an earlier run,
\* "none" when there is no file (the script then ends with FileNotFoundError)
RunTwilio ==
    \E delivered \in BOOLEAN :
        LET read == IF MESSAGE_DRAFTER.output_file \notin disk THEN "none"
                    ELSE IF MESSAGE_DRAFTER.output_file \in DOMAIN written
                    THEN written[MESSAGE_DRAFTER.output_file]
                    ELSE "leftover"
        IN  /\ step = "TWILIO"
            /\ TwilioStarts
            /\ read = "none" => ~delivered
            /\ results' = [results EXCEPT
                               !.twilio_sender = [ran |-> TRUE, success |-> delivered,
                                                  read |-> read]]
            /\ step' = "DONE"
            /\ UNCHANGED <<candidates, time, ticks, calls, last, files, flow, written,
                           run_counter, alias_runs>>

SkipTwilio ==
    /\ step = "TWILIO"
    /\ ~TwilioStarts
    /\ step' = "DONE"
    /\ UNCHANGED <<candidates, time, ticks, calls, last, files, flow, written, results,
                   run_counter, alias_runs>>

InitPipeline ==
    /\ candidates = <<>>
    /\ time = 0
    /\ ticks = 0
    /\ calls = 0
    /\ last = NoCall
    /\ upskill_history = NoFile
    /\ article_history = NoFile
    /\ seen_internships = NoSeenFile
    /\ seen_jobs = NoSeenFile
    /\ pc = "IDLE"
    /\ ai_calls = 0
    /\ disk \in LeftoverSets
    /\ written = NothingWritten
    /\ step = "IDLE"
    /\ results = NoResults
    /\ run_counter \in {NoCounter, CounterAt(3)}
    /\ alias_runs = <<>>

NextPipeline ==
    \/ StartPipeline
    \/ RunScraper
    \/ RunAggregator
    \/ RunShortener
    \/ SkipShortener
    \/ RunDrafter
    \/ SkipDrafter
    \/ RunTwilio
    \/ SkipTwilio

SpecPipeline == InitPipeline /\ [][NextPipeline]_vars

(***************************************************************************)
(* One selection call step by step: START, the request to the AI service,  *)
(* the rule-based fallback, DONE.  pc = "IDLE" before the first call.      *)
(***************************************************************************)
FlowOps == {"ai_select_content", "select_best_upskill_article", "jobs.select_best_with_ai"}

\* does the call get as far as client.chat.completions.create
AiAttempted(call, items) ==
    /\ call.ai.kind \in {"throws", "text"}
    /\ Len(items) > 0
    /\ call.op = "select_best_upskill_article" =>
          /\ call.fault # "json_read"
          /\ Len(filter_previously_selected(items, call.file, call.at, call.fault).ret) > 0

\* does the call run the rule-based selection
HandsOver(call, items) ==
    CASE call.op = "ai_select_content" ->
             /\ Len(items) > 0
             /\ ~(call.ai.kind = "text" /\ ExactMatch(items, strip(call.ai.text)) > 0)
      [] call.op = "jobs.select_best_with_ai" ->
             Len(items) > 0 /\ call.ai.kind \in {"no_key", "no_client", "throws"}
      [] call.op = "select_best_upskill_article" ->
             \/ call.ai.kind \in {"no_key", "no_client"}
             \/ call.fault = "json_read"
             \/ /\ AiAttempted(call, items)
                /\ \/ call.ai.kind = "throws"
                   \/ /\ call.fault = "out_write"
                      /\ selected_index(strip(call.ai.text),
                             Len(filter_previously_selected(items, call.file, call.at,
                                                            call.fault).ret)) # NoMatch

\* where a call goes when the AI path has not produced its pick: the except
\* clause, or the line after the matching loop
AfterFailureRetry == "START"

AfterFailure == "FALLBACK"

\* what the call returns, and the file it leaves
FlowResult(call) ==
    CASE call.op = "ai_select_content" ->
             [ret |-> ai_select_content(candidates, call.type, call.ai, call.importOk, call.at),
              file |-> NoFile]
      [] call.op = "jobs.select_best_with_ai" ->
             select_best_job_with_ai(candidates, seen_jobs, call.ai, call.importOk, call.at,
                                     call.fault)
      [] call.op = "select_best_upskill_article" ->
             select_best_upskill_article(candidates, upskill_history, call.at, call.ai,
                                         call.fault)

\* the next step of the call in progress: return res, or move on
Proceed(to, res) ==
    /\ pc' = to
    /\ IF to = "DONE"
       THEN /\ last' = [last EXCEPT !.out = res.ret]
            /\ upskill_history' = IF last.op = "select_best_upskill_article"
                                  THEN res.file ELSE upskill_history
            /\ seen_jobs' = IF last.op = "jobs.select_best_with_ai"
                            THEN res.file ELSE seen_jobs
       ELSE UNCHANGED <<last, upskill_history, seen_jobs>>
    /\ UNCHANGED <<candidates, time, ticks, calls, article_history, seen_internships, disk, pipeline>>

StartSelection ==
    /\ pc \in {"IDLE", "DONE"}
    /\ calls < MaxCalls
    /\ calls' = calls + 1
    /\ pc' = "START"
    /\ ai_calls' = 0
    /\ \/ \E t \in ContentTypes, ai \in AiOutcomes(TitleReplies(candidates)), importOk \in BOOLEAN :
              last' = Call("ai_select_content", t, ai, importOk, "none", NoFile, None)
       \/ \E ai \in AiOutcomes(TitleReplies(candidates)), fault \in SeenFaults :
              last' = Call("jobs.select_best_with_ai", "job", ai, TRUE, fault, NoFile, None)
       \/ \E ai \in AiOutcomes(UpskillReplies), fault \in Faults :
              last' = Call("select_best_upskill_article", "upskill", ai, TRUE, fault,
                           upskill_history, None)
    /\ UNCHANGED <<candidates, time, ticks, files, disk, pipeline>>

CallAi ==
    /\ pc = "START"
    /\ AiAttempted(last, candidates)
    /\ pc' = "AI"
    /\ ai_calls' = ai_calls + 1
    /\ UNCHANGED <<candidates, time, ticks, calls, last, files, disk, pipeline>>

SkipAi ==
    /\ pc = "START"
    /\ ~AiAttempted(last, candidates)
    /\ Proceed(IF HandsOver(last, candidates) THEN "FALLBACK" ELSE "DONE", FlowResult(last))
    /\ UNCHANGED ai_calls

AiReturns ==
    /\ pc = "AI"
    /\ Proceed(IF HandsOver(last, candidates) THEN AfterFailure ELSE "DONE", FlowResult(last))
    /\ UNCHANGED ai_calls

RunFallback ==
    /\ pc = "FALLBACK"
    /\ Proceed("DONE", FlowResult(last))
    /\ UNCHANGED ai_calls

StepFlow == CallAi \/ SkipAi \/ AiReturns \/ RunFallback

NextFlow == StartSelection \/ StepFlow

InitFlow == InitWith({l \in CandidateLists : Len(l) <= MaxFlowItems}, {NoFile})

\* a call in progress runs on: the scripts are sequential and nothing waits
SpecFlow == InitFlow /\ [][NextFlow]_vars /\ WF_vars(StepFlow)

(***************************************************************************)
(* Properties.                                                             *)
(***************************************************************************)
\* does a returned value carry a chosen item
Chosen(out) == "title" \in DOMAIN out \/ "selected_article" \in DOMAIN out

\* the item a returned value carries
ChosenItem(out) == IF "selected_article" \in DOMAIN out THEN out.selected_article ELSE out

SameTitleUrl(out, item) == out.title = item.title /\ out.url = item.url

\* the index the Selector must return: the first item of maximal score
TopIndex(list, item_type, now) ==
    CHOOSE k \in 1..Len(list) :
        /\ \A j \in 1..Len(list) : ItemScore(list[k], item_type, now) >= ItemScore(list[j], item_type, now)
        /\ \A j \in 1..(k - 1) : ItemScore(list[j], item_type, now) < ItemScore(list[k], item_type, now)

\* C5: for a non-empty candidate list the rule-based Selector returns a member of
\* the list, and the Selection Result built from it carries the title and url of
\* one input item.
C5_NoFabrication ==
    /\ (last.op = "fallback_select_best" /\ Len(candidates) > 0)
          => \E i \in 1..Len(candidates) : last.out = candidates[i]
    /\ (last.op = "ai_select_content" /\ Len(candidates) > 0
        /\ last.out.selection_method = "fallback_algorithm")
          => \E i \in 1..Len(candidates) : SameTitleUrl(last.out, candidates[i])

C5_Witness ==
    /\ last.op = "ai_select_content"
    /\ Len(candidates) = 2
    /\ last.out.selection_method = "fallback_algorithm"
    /\ SameTitleUrl(last.out, candidates[2])
    /\ ~SameTitleUrl(last.out, candidates[1])

\* C6: for an empty candidate list the selection returns a "no content" result
\* (status no_content from ai_select_content, None from fallback_select_best)
\* and never a chosen item.
C6_EmptyIsNoContent ==
    /\ (last.op = "ai_select_content" /\ Len(candidates) = 0)
          => /\ ~Chosen(last.out)
             /\ "status" \in DOMAIN last.out
             /\ last.out.status = "no_content"
    /\ (last.op = "fallback_select_best" /\ Len(candidates) = 0)
          => last.out = None

C6_Witness ==
    /\ last.op = "ai_select_content"
    /\ Len(candidates) = 0
    /\ last.ai.kind = "throws"
    /\ ~last.importOk

\* C7: for a non-empty candidate list the rule-based Selector returns the first
\* item of maximal score: among items of equal score the earlier one wins.
C7_FirstSeenWinsTies ==
    (last.op = "fallback_select_best" /\ Len(candidates) > 0)
        => last.out = candidates[TopIndex(candidates, last.type, time)]

C7_Witness ==
    /\ last.op = "fallback_select_best"
    /\ Len(candidates) = 2
    /\ ItemScore(candidates[1], last.type, time) = ItemScore(candidates[2], last.type, time)
    /\ ItemScore(candidates[1], last.type, time) > 0
    /\ last.out = candidates[1]

\* the keys of a history file that count as seen at day now: the ones a read
\* that meets the given fault finds stamped inside the retention window
SeenKeys(file, now, fault) ==
    IF ~file.exists \/ fault = "hist_read" THEN {}
    ELSE {k \in DOMAIN file.data :
             iso_ok(file.data[k]) /\ iso_day(file.data[k]) >= now - HISTORY_DAYS}

IsSeen(item, seen) == title_key(item) \in seen \/ url_key(item) \in seen

Elements(list) == {list[i] : i \in 1..Len(list)}

\* the list a filter call returned
FilteredList(call) ==
    IF call.op = "filter_duplicate_articles" THEN call.out[1] ELSE call.out

FilterOps == {"filter_previously_selected", "filter_duplicate_articles"}

\* C1: after a history filter has run, no candidate whose title key or url key
\* is a key of the History Store stamped inside the 30-day window (as the store
\* was read when the filter ran) is in the filtered list.
C1_SeenItemsExcluded ==
    last.op \in FilterOps =>
        \A i \in 1..Len(candidates) :
            IsSeen(candidates[i], SeenKeys(last.file, last.at, last.fault))
                => candidates[i] \notin Elements(FilteredList(last))

C1_Witness ==
    /\ last.op \in FilterOps
    /\ Len(candidates) = 2
    /\ \E i \in 1..2 :
          /\ title_key(candidates[i]) \in SeenKeys(last.file, last.at, last.fault)
          /\ url_key(candidates[i]) \notin SeenKeys(last.file, last.at, last.fault)
          /\ candidates[i] \notin Elements(FilteredList(last))

UpskillSelectors == {"select_best_upskill_article", "select_best_upskill_fallback"}

\* a second upskill selection follows a first one at once: the first returned a
\* winner whose two keys the History Store now holds, and the second call reads
\* the store
SecondCallFollows ==
    /\ last.op \in UpskillSelectors
    /\ Chosen(last.out)
    /\ {title_key(last.out.selected_article), url_key(last.out.selected_article)}
          \subseteq SeenKeys(upskill_history, time, "none")
    /\ last'.op \in UpskillSelectors
    /\ calls' = calls + 1
    /\ last'.fault # "hist_read"

\* C2 as stated: the second of two selections in a row on the same candidate
\* list yields a "no content" result.
C2_Original == [][SecondCallFollows => ~Chosen(last'.out)]_vars

\* C2: the second of two upskill selections in a row on the same candidate list
\* never selects the first call's winner, nor a candidate sharing its title key
\* or url key; it yields a "no content" result when every candidate is seen.
C2_WinnerNotReselected ==
    [][SecondCallFollows =>
          /\ Chosen(last'.out) =>
                ~IsSeen(last'.out.selected_article,
                        {title_key(last.out.selected_article), url_key(last.out.selected_article)})
          /\ (\A i \in 1..Len(candidates) :
                 IsSeen(candidates[i], SeenKeys(upskill_history, time, "none")))
                => (~Chosen(last'.out) /\ "error" \in DOMAIN last'.out)]_vars

C2_Witness ==
    /\ last.op \in UpskillSelectors
    /\ calls = 2
    /\ last.fault = "none"
    /\ Len(candidates) = 1
    /\ title_key(candidates[1]) \in DOMAIN last.file.data
    /\ last.file.data[title_key(candidates[1])] = IsoFormat(last.at)
    /\ ~Chosen(last.out)
    /\ last.out.error = "All articles have been previously selected"

AiSelectors ==
    {"select_best_upskill_article", "select_best_article", "ai_select_content",
     "internship.select_best_with_ai", "jobs.select_best_with_ai"}

\* C3 as stated: when the AI call throws, the AI-assisted selector returns the
\* item the rule-based Selector returns for the same list.
C3_Original ==
    (last.op \in AiSelectors /\ last.ai.kind = "throws" /\ Len(candidates) > 0)
        => /\ Chosen(last.out)
           /\ SameTitleUrl(ChosenItem(last.out), fallback_select_best(candidates, last.type, last.at))

\* C4 as stated: whatever fails in the AI path, an AI-assisted selection on a
\* non-empty candidate list returns a result carrying a chosen item.
C4_Original ==
    (last.op \in AiSelectors /\ Len(candidates) > 0 /\ last.fault = "none"
     /\ (last.ai.kind # "text" \/ last.ai.text = "Nothing fits"))
        => Chosen(last.out)

\* the reply matches no candidate title, exactly or by containment
NoTitleMatch(list, reply) ==
    /\ ExactMatch(list, reply) = 0
    /\ \A i \in 1..Len(list) : ~either_contains(reply, list[i].title)

\* C8 as stated: when the AI's reply matches no candidate title, the result is
\* the rule-based Selector's top pick, with a "not found" reasoning note.
C8_Original ==
    (last.op \in AiSelectors /\ last.ai.kind = "text" /\ Len(candidates) > 0
     /\ upper(strip(last.ai.text)) # "NONE" /\ NoTitleMatch(candidates, last.ai.text))
        => /\ Chosen(last.out)
           /\ SameTitleUrl(ChosenItem(last.out), fallback_select_best(candidates, last.type, last.at))
           /\ In("not found", Get(last.out, "ai_reasoning", ""))

\* C9 as stated: when the AI's reply equals a candidate's title after trimming,
\* that candidate is the one selected.
C9_Original ==
    (last.op \in AiSelectors /\ last.ai.kind = "text"
     /\ ExactMatch(candidates, last.ai.text) > 0)
        => /\ Chosen(last.out)
           /\ SameTitleUrl(ChosenItem(last.out), candidates[ExactMatch(candidates, last.ai.text)])

\* C10 as stated: when the AI's reply is the "NONE" sentinel, the selection call
\* returns a "no suitable content" result with no chosen item.
C10_Original ==
    (last.op \in AiSelectors /\ last.ai.kind = "text" /\ upper(strip(last.ai.text)) = "NONE")
        => ~Chosen(last.out)

\* C11: a selection call sends at most one request to the AI service; from the
\* AI step it goes to DONE or to FALLBACK, never back to START; from FALLBACK it
\* goes to DONE; and every call that has started reaches DONE.
C11_OneAttemptThenDone ==
    /\ [](ai_calls <= 1)
    /\ [][pc = "AI" => pc' \in {"FALLBACK", "DONE"}]_vars
    /\ [][pc = "FALLBACK" => pc' = "DONE"]_vars
    /\ [](pc = "START" => <>(pc = "DONE"))

\* a call whose request to the AI raised is done, after the fallback, with one request sent
C11_Witness ==
    /\ pc = "DONE"
    /\ ai_calls = 1
    /\ last.ai.kind = "throws"
    /\ Chosen(last.out)

\* C12: after a rule-based selection that returned an item, the title key and
\* the url key of that item are keys of the History Store.
C12_Original ==
    (/\ last.op \in {"fallback_select_best", "ai_select_content"}
     /\ Chosen(last.out)
     /\ last.op = "ai_select_content" => last.out.selection_method = "fallback_algorithm")
        => \E file \in {upskill_history, article_history} :
               {title_key(last.out), url_key(last.out)} \subseteq DOMAIN file.data

\* the history file a call of the History Store works on
StoreOf(call) ==
    IF call.op \in {"add_to_history", "filter_duplicate_articles", "load_article_history"}
    THEN article_history ELSE upskill_history

\* C13: when record(item) has returned and its write did not fail, the history
\* file exists and maps both "title:<lowercased, trimmed title>" and
\* "url:<lowercased, trimmed url>" of the item to the instant of the call.
C13_RecordWritesBothKeys ==
    (/\ last.op \in {"add_to_upskill_history", "add_to_history"}
     /\ last.fault # "hist_write")
        => /\ StoreOf(last).exists
           /\ \A key \in {"title:" \o Strip(Lower(last.out.title)),
                          "url:" \o Strip(Lower(last.out.url))} :
                  /\ key \in DOMAIN StoreOf(last).data
                  /\ StoreOf(last).data[key] = IsoFormat(last.at)

\* an item with a padded title and an upper-case url was recorded into a file that held another item
C13_Witness ==
    /\ last.op \in {"add_to_upskill_history", "add_to_history"}
    /\ last.fault = "none"
    /\ last.out.title = " python tutorial "
    /\ last.file.exists
    /\ StoreOf(last).data["title:python tutorial"] = IsoFormat(last.at)
    /\ "url:y.io/py" \in DOMAIN StoreOf(last).data
    /\ Cardinality(DOMAIN StoreOf(last).data) > 2

\* the records of a stored mapping stamped inside the retention window at `now`
InWindow(data, now) ==
    LET keep == {k \in DOMAIN data :
                    \E t \in Clock : t >= now - 30 /\ data[k] = "day " \o ToString(t)}
    IN  [k \in keep |-> data[k]]

\* C14: a load() of an existing, readable history file returns exactly the
\* records stamped inside the 30-day window, and, its rewrite not failing,
\* leaves exactly those records in the file.
C14_LoadPrunesToWindow ==
    (/\ last.op = "load_upskill_history"
     /\ last.file.exists
     /\ last.fault # "hist_read")
        => /\ last.out = InWindow(last.file.data, last.at)
           /\ last.fault = "none" =>
                  /\ upskill_history.exists
                  /\ upskill_history.data = InWindow(last.file.data, last.at)

\* a load found a record older than the window beside a newer one, returned the
\* newer one alone and rewrote the file without the old one
C14_Witness ==
    /\ last.op = "load_upskill_history"
    /\ last.fault = "none"
    /\ last.file.exists
    /\ \E k \in DOMAIN last.file.data : last.file.data[k] = "day 0"
    /\ last.at > 30
    /\ DOMAIN last.out # {}
    /\ DOMAIN upskill_history.data = DOMAIN last.out
    /\ DOMAIN last.out # DOMAIN last.file.data

\* C15: a load() hands its caller a mapping whatever it finds, never an
\* exception, and the empty mapping when the file is missing, cannot be read or
\* parsed, or holds something that is not a mapping.
C15_LoadNeverErrors ==
    last.op = "load_upskill_history"
        => /\ "raised" \notin DOMAIN last.out
           /\ (~last.file.exists \/ last.fault = "hist_read" \/ "corrupt" \in DOMAIN last.file)
                  => last.out = <<>>

\* a load met a file that holds a list, returned the empty mapping and left the file alone
C15_Witness ==
    /\ last.op = "load_upskill_history"
    /\ "corrupt" \in DOMAIN last.file
    /\ last.file.corrupt = "json_list"
    /\ last.out = <<>>
    /\ upskill_history = last.file

\* a load follows a load at once, under the same conditions: no call and no
\* clock advance in between, the same fault or none at both
LoadFollowsLoad ==
    /\ last.op = "load_upskill_history"
    /\ last'.op = "load_upskill_history"
    /\ calls' = calls + 1
    /\ last'.at = last.at
    /\ last'.fault = last.fault

\* C16: the second of two loads in succession returns the mapping the first
\* returned and leaves the file as the first left it.
C16_PruningIdempotent ==
    [][LoadFollowsLoad => (last'.out = last.out /\ upskill_history' = upskill_history)]_vars

\* a second load found the file an earlier load had pruned of its unparseable
\* entry, returned the one record left and changed nothing
C16_Witness ==
    /\ calls = 2
    /\ last.op = "load_upskill_history"
    /\ last.fault = "none"
    /\ DOMAIN last.file.data = {"url:x.io/dk"}
    /\ last.out = last.file.data
    /\ upskill_history = last.file

\* what an upskill selection call returns when no file operation fails
UnfailedResult(call) ==
    IF call.op = "select_best_upskill_article"
    THEN select_best_upskill_article(candidates, call.file, call.at, call.ai, "none").ret
    ELSE select_best_upskill_fallback(candidates, call.file, call.at, "none").ret

\* C17: when every write of the history file fails during an upskill selection
\* call, no exception reaches the caller: the call returns what it returns when
\* the writes succeed, its chosen item included, and the file is as it was.
C17_WriteFailureSwallowed ==
    (last.op \in UpskillSelectors /\ last.fault = "hist_write")
        => /\ "raised" \notin DOMAIN upskill_history
           /\ "raised" \notin DOMAIN last.out
           /\ last.out = UnfailedResult(last)
           /\ upskill_history = last.file

\* a selection whose history write failed returned its chosen item
C17_Witness ==
    /\ last.op \in UpskillSelectors
    /\ last.fault = "hist_write"
    /\ Chosen(last.out)
    /\ ChosenItem(last.out) \in Elements(candidates)
    /\ upskill_history = last.file

ScoreOps == {"score_tech_article", "score_internship", "score_job", "score_upskill_article"}

\* C18: whatever the item (title missing or empty, penalties outweighing
\* bonuses) and whichever of the four scorers, the score returned is >= 0.
C18_ScoreNonNegative == last.op \in ScoreOps => last.out >= 0

\* a title that draws only penalties, and an item without a title, were scored 0
C18_Witness ==
    /\ last.op \in {"score_tech_article", "score_job", "score_internship"}
    /\ last.out = 0
    /\ \/ "title" \notin DOMAIN candidates[1]
       \/ candidates[1].title \in {"Opinion: tech gossip blog", "Senior Manager", "Part time sales"}

\* two calls of one scorer on one item, one directly after the other
ScoredTwice ==
    /\ last.op \in ScoreOps
    /\ last'.op = last.op
    /\ calls' = calls + 1

CleanupOps == {"cleanup_output_files", "RobustPipeline.cleanup_output_files"}

CleanupStep == calls' = calls + 1 /\ last'.op \in CleanupOps

\* C21: cleanup_output_files() leaves the five persistent files alone: the
\* two history files, the two seen-sets and the TinyURL run counter exist
\* after it exactly as they did before, with the same contents.
C21_PersistentFilesPreserved ==
    [][CleanupStep => /\ upskill_history' = upskill_history
                      /\ article_history' = article_history
                      /\ seen_internships' = seen_internships
                      /\ seen_jobs' = seen_jobs
                      /\ run_counter' = run_counter]_vars

\* a cleanup that cleared output files ran while the upskill history and the
\* run counter existed, and both are still there with their contents
C21_Witness ==
    /\ last.op \in CleanupOps
    /\ last.out.total_cleared >= 1
    /\ last.out.total_preserved = 2
    /\ upskill_history = DamagedFile
    /\ run_counter = CounterAt(3)

\* add_to_upskill_history(a) has returned, its write done, and the next call is
\* filter_previously_selected on the same list, the history readable, while
\* the record is inside the retention window
FilterFollowsRecord ==
    /\ last.op = "add_to_upskill_history"
    /\ last.fault # "hist_write"
    /\ calls' = calls + 1
    /\ last'.op = "filter_previously_selected"
    /\ last'.fault # "hist_read"
    /\ last'.at <= last.at + HISTORY_DAYS

\* C22: once add_to_upskill_history(a) has recorded an article a of the list,
\* filter_previously_selected applied to the same list returns a list that
\* contains neither a nor any article sharing a's title key or url key.
C22_RecordThenFilter ==
    [][FilterFollowsRecord =>
          \A i \in 1..Len(last'.out) :
              /\ last'.out[i] # last.out
              /\ title_key(last'.out[i]) # title_key(last.out)
              /\ url_key(last'.out[i]) # url_key(last.out)]_vars

\* the filter ran on a two-article list after one of the two, unseen until
\* then, had been recorded, and returned the other one alone
C22_Witness ==
    /\ calls = 2
    /\ last.op = "filter_previously_selected"
    /\ last.fault = "none"
    /\ Len(candidates) = 2
    /\ Len(last.out) = 1
    /\ \E i \in 1..2 : /\ title_key(candidates[i]) \in DOMAIN last.file.data
                       /\ title_key(candidates[i]) \notin DOMAIN DamagedFile.data
                       /\ url_key(candidates[i]) \notin DOMAIN DamagedFile.data
                       /\ last.out[1] # candidates[i]

C30_Original ==
    \A i \in 1..Len(alias_runs), j \in 1..Len(alias_runs) :
        i < j => alias_runs[i] < alias_runs[j]

\* C24: for the tech news list [New AI Breakthrough in Machine Learning (a),
\* Opinion: Why Tech is Bad (b)], in either order, the rule-based Selector
\* returns a, and the score of b is not above 0.
C24_ScenarioOne ==
    /\ (/\ last.op = "fallback_select_best"
        /\ last.type = "tech_news"
        /\ candidates \in {<<NewsA, NewsB>>, <<NewsB, NewsA>>})
           => last.out = NewsA
    /\ (last.op = "score_tech_article" /\ candidates[1] = NewsB) => last.out <= 0

\* the Selector was given b before a and returned a
C24_Witness ==
    /\ last.op = "fallback_select_best"
    /\ last.type = "tech_news"
    /\ candidates = <<NewsB, NewsA>>
    /\ last.out = NewsA
    /\ ItemScore(NewsB, "tech_news", last.at) = 0
    /\ ItemScore(NewsA, "tech_news", last.at) = 43

\* C25: as a job, Senior Software Engineer scores strictly below Junior
\* Software Engineer, every other field being equal, and the rule-based
\* Selector ranks the junior posting first.
C25_JuniorAboveSenior ==
    /\ (last.op = "score_job" /\ candidates[1] = SeniorJob) => last.out < ItemScore(JuniorJob, "job", time)
    /\ (last.op = "score_job" /\ candidates[1] = JuniorJob) => last.out > ItemScore(SeniorJob, "job", time)
    /\ (/\ last.op = "fallback_select_best"
        /\ last.type = "job"
        /\ candidates \in {<<SeniorJob, JuniorJob>>, <<JuniorJob, SeniorJob>>})
           => last.out = JuniorJob

\* the Selector was given the senior posting first and returned the junior one
C25_Witness ==
    /\ last.op = "fallback_select_best"
    /\ last.type = "job"
    /\ candidates = <<SeniorJob, JuniorJob>>
    /\ last.out = JuniorJob
    /\ ItemScore(SeniorJob, "job", time) = 15
    /\ ItemScore(JuniorJob, "job", time) = 60

\* C28 as stated: whatever the reads that failed, after record(item) every
\* other record that was inside the retention window before the call is still
\* in the History Store with the timestamp it had.
C28_Original ==
    (/\ last.op \in {"add_to_upskill_history", "add_to_history"}
     /\ last.file.exists
     /\ "corrupt" \notin DOMAIN last.file)
        => \A k \in DOMAIN InWindow(last.file.data, last.at) :
               k \notin {title_key(last.out), url_key(last.out)}
                   => /\ k \in DOMAIN StoreOf(last).data
                      /\ StoreOf(last).data[k] = last.file.data[k]

MainOps == {"internship_scraper.main", "jobs_scraper.main"}

\* a run that returned a posting, not a message
Selected(call) == call.op \in MainOps /\ "title" \in DOMAIN call.out

\* title-company-url of a posting, the url of a job without its tracking parameter
PostingKey(item, type) ==
    Get(item, "title", "") \o "-" \o Get(item, "company", "") \o "-"
        \o (IF type = "job" THEN normalize_url(Get(item, "url", "")) ELSE Get(item, "url", ""))

SeenOf(type, internships_file, jobs_file) == IF type = "job" THEN jobs_file ELSE internships_file

TwilioStarted == step = "DONE" /\ results.twilio_sender.ran

\* C26: when the Twilio sender has started in a pipeline run, the message
\* drafter of that run has finished successfully and the message file the
\* sender opened was written by the drafter during that run.
C26_Original ==
    TwilioStarted
        => /\ results.message_drafter.ran
           /\ results.message_drafter.success
           /\ results.twilio_sender.read = "script"

\* the sender has sent the message of an earlier run
StaleSend ==
    /\ TwilioStarted
    /\ results.twilio_sender.read = "leftover"
    /\ results.twilio_sender.success

AggregatorStarts == step = "SCRAPERS" /\ Len(results.scrapers) = 4

\* C27: when the aggregator starts in a run in which no file operation has
\* failed, each of the four scraper output files exists, is not empty, and is
\* either the file its scraper wrote in this run or a fallback file with status
\* no_content.
C27_Original ==
    (AggregatorStarts /\ ~results.faulted)
        => \A i \in 1..4 :
               /\ SCRAPERS[i].output_file \in disk
               /\ SCRAPERS[i].output_file \in DOMAIN written
               /\ written[SCRAPERS[i].output_file] \in {"script", "no_content"}

====
